---- MODULE Spec2Model ----
(***************************************************************************)
(* Word-search puzzle core of ottieverse: the seeded grid generator        *)
(* (generator.ts), the drag-selection reducer (use-drag-select.ts) and the *)
(* game orchestrator hook (use-word-search.ts).                            *)
(***************************************************************************)
EXTENDS Integers, Sequences, FiniteSets, TLC

\* JavaScript null / undefined as used by the modelled code.
Null == "null"

Undefined == "undefined"

\* null where the code holds an object (a cell, a vector, a lock result)
NullObj == [null |-> TRUE]

(***************************************************************************)
(* State.                                                                  *)
(***************************************************************************)
VARIABLES
  config,              \* the config every generateGrid call of the run receives
  genPc,               \* position inside generateGrid: "idle", "placing", "filling"
  rng,                 \* closure variable `state` of the call's LCG
  workGrid,            \* the mutable working grid of the call
  sortedWords,         \* entries of sortedWords not yet placed
  wordPlacements,      \* placements recorded so far by the call
  hiddenMessageCells,  \* result of scatterHiddenMessage of the call
  outcomes,            \* what each finished call returned or threw, in call order
  dragState,           \* reducer state of useDragSelect: phase, startCell, vector
  gamePhase,           \* reducer state of useWordSearch: type, foundWords
  isOtterExcited,      \* useState flag of useWordSearch
  otterTimer,          \* otterTimerRef: "none" (null), "pending", "cleared"
  revealTimer,         \* revealTimerRef: "none" (null), "pending", "cleared"
  mounted,             \* the component that called useWordSearch is mounted
  onCompleteCalls,     \* number of calls of the onComplete callback
  haptics,             \* number of haptic.light / medium / pattern calls
  liveTimers,          \* setTimeout callbacks scheduled and not cleared: otter, reveal
  experienceState,     \* reducer state of Experience: currentScene
  sceneCompletes,      \* number of onComplete calls made by each scene
  quizState,           \* reducer state of useQuiz
  advanceTimer,        \* advanceTimerRef and the isLastQuestion its callback holds
  letterState,         \* reducer state of useLetter
  letterInterval,      \* intervalRef: "none" (null) or "running"
  askState,            \* reducer state of useAsk
  ctaTimer             \* ctaTimerRef of TheAsk: "none", "pending", "fired", "cleared"

genVars ==
  <<config, genPc, rng, workGrid, sortedWords, wordPlacements, hiddenMessageCells, outcomes>>

gameVars ==
  <<gamePhase, isOtterExcited, otterTimer, revealTimer, mounted, onCompleteCalls, haptics,
    liveTimers>>

sceneVars ==
  <<experienceState, sceneCompletes, quizState, advanceTimer, letterState, letterInterval,
    askState, ctaTimer>>

uiVars == <<dragState, gameVars, sceneVars>>

vars == <<genVars, dragState, gameVars, sceneVars>>

(***************************************************************************)
(* Bounds of the explored input space.                                     *)
(***************************************************************************)
\* largest gridSize of an enumerated generator config
MaxGridSize == 4

\* longest word list of an enumerated generator config
MaxWords == 2

\* number of generateGrid calls made in one explored run
MaxCalls == 2

\* number of not-yet-found words, in placement order, the player goes after
MaxHunted == 1

\* largest shuffleSeed from which the quiz is retried
MaxShuffleSeed == 6

\* taps on the call-to-action button of the last scene
MaxCtaTaps == 2

(***************************************************************************)
(* generator.ts : constants                                                *)
(***************************************************************************)
FIXED_SEED == 12345

MAX_PLACEMENT_ATTEMPTS == 200

\* faulty variant: the row and column steps of the two straight directions
\* are exchanged
DIRECTION_VECTORS_Swapped ==
  [horizontal |-> <<1, 0>>, vertical |-> <<0, 1>>, diagonal |-> <<1, 1>>]

DIRECTION_VECTORS ==
  [horizontal |-> <<0, 1>>, vertical |-> <<1, 0>>, diagonal |-> <<1, 1>>]

\* faulty variant: the commonest letter of the pool is a vowel
FILLER_WEIGHTS_WithVowel ==
  << <<"E", 12>>, <<"N", 10>>, <<"S", 10>>, <<"R", 10>>, <<"L", 8>>,
     <<"D", 6>>, <<"C", 6>>, <<"M", 6>>, <<"H", 4>>, <<"G", 4>>, <<"P", 4>>,
     <<"B", 3>>, <<"F", 3>>, <<"W", 3>>, <<"K", 2>>, <<"J", 1>>, <<"X", 1>>,
     <<"Z", 1>> >>

FILLER_WEIGHTS ==
  << <<"T", 12>>, <<"N", 10>>, <<"S", 10>>, <<"R", 10>>, <<"L", 8>>,
     <<"D", 6>>, <<"C", 6>>, <<"M", 6>>, <<"H", 4>>, <<"G", 4>>, <<"P", 4>>,
     <<"B", 3>>, <<"F", 3>>, <<"W", 3>>, <<"K", 2>>, <<"J", 1>>, <<"X", 1>>,
     <<"Z", 1>> >>

\* `weight` copies of `letter`
RECURSIVE Repeat(_, _)
Repeat(letter, weight) ==
  IF weight <= 0 THEN <<>> ELSE <<letter>> \o Repeat(letter, weight - 1)

RECURSIVE buildFillerPoolFrom(_)
buildFillerPoolFrom(k) ==
  IF k > Len(FILLER_WEIGHTS) THEN <<>>
  ELSE Repeat(FILLER_WEIGHTS[k][1], FILLER_WEIGHTS[k][2]) \o buildFillerPoolFrom(k + 1)

buildFillerPool == buildFillerPoolFrom(1)

\* 1-indexed here; FILLER_POOL[index] of the code is FILLER_POOL[index + 1]
FILLER_POOL == buildFillerPool

(***************************************************************************)
(* generator.ts : seeded LCG.  The closure variable `state` is a signed    *)
(* 32-bit integer (result of `| 0`); products are formed on 16-bit limbs   *)
(* so that every intermediate value stays below 2^31.                      *)
(***************************************************************************)
Lo16(state) == state % 65536

Hi16(state) == (state \div 65536) % 65536

ToInt32(hi, lo) ==
  IF hi >= 32768 THEN (hi - 65536) * 65536 + lo ELSE hi * 65536 + lo

\* faulty variant: one generator shared by all calls instead of one per call
createLcgShared(seed) == IF outcomes = <<>> THEN seed ELSE rng

\* createLcg(seed): the initial value of the closure variable
createLcg(seed) == seed

\* state = (Math.imul(1664525, state) + 1013904223) | 0
\* 1664525 = 25 * 2^16 + 26125 ; 1013904223 = 15470 * 2^16 + 62303
lcgNext(state) ==
  LET sLo == Lo16(state)
      sHi == Hi16(state)
      loFull == 26125 * sLo + 62303
      hiFull == (25 * sLo + 26125 * sHi + 15470 + (loFull \div 65536)) % 65536
  IN ToInt32(hiFull, loFull % 65536)

\* Math.floor(((state >>> 0) / 0x100000000) * n), exact for |n| < 2^15
randomIndex(state, n) ==
  (Hi16(state) * n + ((Lo16(state) * n) \div 65536)) \div 65536

(***************************************************************************)
(* generator.ts : grid helpers                                             *)
(***************************************************************************)
Cell(r, c) == [row |-> r, col |-> c]

createEmptyGrid(size) == [r \in 0 .. size - 1 |-> [c \in 0 .. size - 1 |-> Null]]

\* grid[row][col] as JavaScript evaluates it: a TypeError when grid[row] is
\* undefined, undefined when only the column is out of range
ReadCell(grid, row, col) ==
  IF row \notin DOMAIN grid THEN "TypeError"
  ELSE IF col \notin DOMAIN grid[row] THEN Undefined
  ELSE grid[row][col]

\* faulty variant: an occupied cell is accepted whatever letter it holds
RECURSIVE checkCellsNoCollision(_, _, _, _, _, _, _)
checkCellsNoCollision(grid, word, startRow, startCol, dRow, dCol, i) ==
  IF i >= Len(word) THEN "valid"
  ELSE LET existing == ReadCell(grid, startRow + i * dRow, startCol + i * dCol)
       IN IF existing = "TypeError" THEN "TypeError"
          ELSE IF existing = Undefined THEN "invalid"
          ELSE checkCellsNoCollision(grid, word, startRow, startCol, dRow, dCol, i + 1)

\* the inner validity loop of placeWord: "valid", "invalid" or "TypeError"
RECURSIVE checkCells(_, _, _, _, _, _, _)
checkCells(grid, word, startRow, startCol, dRow, dCol, i) ==
  IF i >= Len(word) THEN "valid"
  ELSE LET existing == ReadCell(grid, startRow + i * dRow, startCol + i * dCol)
       IN IF existing = "TypeError" THEN "TypeError"
          ELSE IF existing # Null /\ existing # word[i + 1] THEN "invalid"
          ELSE checkCells(grid, word, startRow, startCol, dRow, dCol, i + 1)

wordCells(word, startRow, startCol, dRow, dCol) ==
  [i \in 1 .. Len(word) |-> Cell(startRow + (i - 1) * dRow, startCol + (i - 1) * dCol)]

RECURSIVE writeCells(_, _, _, _)
writeCells(grid, cells, letters, i) ==
  IF i > Len(cells) THEN grid
  ELSE writeCells([grid EXCEPT ![cells[i].row][cells[i].col] = letters[i]],
                  cells, letters, i + 1)

\* attempts `attempt`, `attempt` + 1, ... of the placement loop, up to (not
\* including) attempt `limit`; "retry" when none of them was valid
RECURSIVE placeWordAttempt(_, _, _, _, _, _, _)
placeWordAttempt(grid, word, direction, gridSize, state, attempt, limit) ==
  LET dRow == DIRECTION_VECTORS[direction][1]
      dCol == DIRECTION_VECTORS[direction][2]
      maxRow == gridSize - dRow * (Len(word) - 1)
      maxCol == gridSize - dCol * (Len(word) - 1)
      s1 == lcgNext(state)
      startRow == randomIndex(s1, maxRow)
      s2 == lcgNext(s1)
      startCol == randomIndex(s2, maxCol)
      check == checkCells(grid, word, startRow, startCol, dRow, dCol, 0)
      cells == wordCells(word, startRow, startCol, dRow, dCol)
  IN IF attempt >= limit
     THEN [kind |-> "retry", error |-> Null,
           grid |-> grid, placement |-> NullObj, rng |-> state]
     ELSE IF check = "TypeError"
     THEN [kind |-> "throw", error |-> "TypeError",
           grid |-> grid, placement |-> NullObj, rng |-> s2]
     ELSE IF check = "valid"
     THEN [kind |-> "ok", error |-> Null,
           grid |-> writeCells(grid, cells, word, 1),
           placement |-> [word |-> word, direction |-> direction, cells |-> cells],
           rng |-> s2]
     ELSE placeWordAttempt(grid, word, direction, gridSize, s2, attempt + 1, limit)

\* for (attempt = 0; attempt < MAX_PLACEMENT_ATTEMPTS; attempt++), evaluated
\* in runs of 16 attempts to keep the evaluation depth small
RECURSIVE placeWordFrom(_, _, _, _, _, _)
placeWordFrom(grid, word, direction, gridSize, state, attempt) ==
  LET limit == IF attempt + 16 < MAX_PLACEMENT_ATTEMPTS
               THEN attempt + 16 ELSE MAX_PLACEMENT_ATTEMPTS
      r == placeWordAttempt(grid, word, direction, gridSize, state, attempt, limit)
  IN IF attempt >= MAX_PLACEMENT_ATTEMPTS
     THEN [kind |-> "throw", error |-> "GridGenerationError:placement",
           grid |-> grid, placement |-> NullObj, rng |-> state]
     ELSE IF r.kind = "retry"
     THEN placeWordFrom(grid, word, direction, gridSize, r.rng, limit)
     ELSE r

placeWord(grid, word, direction, gridSize, state) ==
  placeWordFrom(grid, word, direction, gridSize, state, 0)

(***************************************************************************)
(* generator.ts : hidden message scattering                                *)
(***************************************************************************)
\* faulty variant: every cell of the row is collected, empty or not
RECURSIVE collectEveryCellInRow(_, _, _, _)
collectEveryCellInRow(grid, gridSize, row, col) ==
  IF col >= gridSize THEN <<>>
  ELSE <<Cell(row, col)>> \o collectEveryCellInRow(grid, gridSize, row, col + 1)

\* inner loop of the empty-cell collection: for (col = 0; col < gridSize; col++)
RECURSIVE collectEmptyInRow(_, _, _, _)
collectEmptyInRow(grid, gridSize, row, col) ==
  IF col >= gridSize THEN <<>>
  ELSE (IF grid[row][col] = Null THEN <<Cell(row, col)>> ELSE <<>>)
       \o collectEmptyInRow(grid, gridSize, row, col + 1)

\* row-major list of the cells of `grid` that are still null
RECURSIVE collectEmptyCells(_, _, _)
collectEmptyCells(grid, gridSize, row) ==
  IF row >= gridSize THEN <<>>
  ELSE collectEmptyInRow(grid, gridSize, row, 0)
       \o collectEmptyCells(grid, gridSize, row + 1)

\* faulty variant: the spaces of the message are kept
removeSpacesKeepsAll(message) == message

\* message.replaceAll(" ", "")
RECURSIVE removeSpaces(_)
removeSpaces(message) ==
  IF message = <<>> THEN <<>>
  ELSE (IF Head(message) = " " THEN <<>> ELSE <<Head(message)>>)
       \o removeSpaces(Tail(message))

\* faulty variant: the swap without its temporary
swapCellsNoTemp(cells, i, j) == [cells EXCEPT ![i + 1] = cells[j + 1]]

\* emptyCells[i] <-> emptyCells[j] through the temporary (0-indexed i, j)
swapCells(cells, i, j) ==
  [cells EXCEPT ![i + 1] = cells[j + 1], ![j + 1] = cells[i + 1]]

\* iterations i, i - 1, ... of the Fisher-Yates loop down to (not including)
\* `stop`; the test on cells only makes each iteration's array a value before
\* the next iteration starts
RECURSIVE shuffleRun(_, _, _, _)
shuffleRun(cells, i, state, stop) ==
  IF i <= stop \/ cells = <<>> THEN [cells |-> cells, rng |-> state]
  ELSE LET s1 == lcgNext(state)
           j == randomIndex(s1, i + 1)
       IN shuffleRun(swapCells(cells, i, j), i - 1, s1, stop)

\* Fisher-Yates: for (i = length - 1; i > 0; i--), evaluated in runs of 16
RECURSIVE shuffleFrom(_, _, _)
shuffleFrom(cells, i, state) ==
  LET stop == IF i - 16 > 0 THEN i - 16 ELSE 0
      r == shuffleRun(cells, i, state, stop)
  IN IF i <= 0 THEN [cells |-> cells, rng |-> state]
     ELSE shuffleFrom(r.cells, stop, r.rng)

\* faulty variant: the capacity test counts the message with its spaces
scatterHiddenMessageRawLength(grid, message, gridSize, state) ==
  LET emptyCells == collectEmptyCells(grid, gridSize, 0)
      messageChars == removeSpaces(message)
      shuffled == shuffleFrom(emptyCells, Len(emptyCells) - 1, state)
      selectedCells == SubSeq(shuffled.cells, 1, Len(messageChars))
  IN IF Len(emptyCells) < Len(message)
     THEN [kind |-> "throw", error |-> "GridGenerationError:capacity",
           grid |-> grid, cells |-> <<>>, rng |-> state]
     ELSE [kind |-> "ok", error |-> Null,
           grid |-> writeCells(grid, selectedCells, messageChars, 1),
           cells |-> selectedCells, rng |-> shuffled.rng]

scatterHiddenMessage(grid, message, gridSize, state) ==
  LET emptyCells == collectEmptyCells(grid, gridSize, 0)
      messageChars == removeSpaces(message)
      shuffled == shuffleFrom(emptyCells, Len(emptyCells) - 1, state)
      selectedCells == SubSeq(shuffled.cells, 1, Len(messageChars))
  IN IF Len(emptyCells) < Len(messageChars)
     THEN [kind |-> "throw", error |-> "GridGenerationError:capacity",
           grid |-> grid, cells |-> <<>>, rng |-> state]
     ELSE [kind |-> "ok", error |-> Null,
           grid |-> writeCells(grid, selectedCells, messageChars, 1),
           cells |-> selectedCells, rng |-> shuffled.rng]

(***************************************************************************)
(* generator.ts : filler generation and finalization                       *)
(***************************************************************************)
\* inner loop: for (col = 0; col < gridSize; col++)
RECURSIVE fillRow(_, _, _, _, _)
fillRow(grid, gridSize, row, col, state) ==
  IF col >= gridSize THEN [grid |-> grid, rng |-> state]
  ELSE LET s1 == lcgNext(state)
           index == randomIndex(s1, Len(FILLER_POOL))
       IN IF grid[row][col] = Null
          THEN fillRow([grid EXCEPT ![row][col] = FILLER_POOL[index + 1]],
                       gridSize, row, col + 1, s1)
          ELSE fillRow(grid, gridSize, row, col + 1, state)

\* outer loop: for (row = 0; row < gridSize; row++)
RECURSIVE fillFrom(_, _, _, _)
fillFrom(grid, gridSize, row, state) ==
  IF row >= gridSize THEN [grid |-> grid, rng |-> state]
  ELSE LET r == fillRow(grid, gridSize, row, 0, state)
       IN fillFrom(r.grid, gridSize, row + 1, r.rng)

fillRemainingCells(grid, gridSize, state) == fillFrom(grid, gridSize, 0, state)

\* letter ?? "" with the cell's coordinates
freezeGrid(grid) ==
  [r \in DOMAIN grid |->
     [c \in DOMAIN grid[r] |->
        [letter |-> IF grid[r][c] = Null THEN "" ELSE grid[r][c],
         row |-> r, col |-> c]]]

\* config.words.toSorted((a, b) => b.word.length - a.word.length): stable,
\* longest first
RECURSIVE insertByLength(_, _)
insertByLength(sorted, entry) ==
  IF sorted = <<>> THEN <<entry>>
  ELSE IF Len(Head(sorted).word) >= Len(entry.word)
       THEN <<Head(sorted)>> \o insertByLength(Tail(sorted), entry)
       ELSE <<entry>> \o sorted

RECURSIVE toSortedFrom(_, _, _)
toSortedFrom(words, k, acc) ==
  IF k > Len(words) THEN acc
  ELSE toSortedFrom(words, k + 1, insertByLength(acc, words[k]))

toSorted(words) == toSortedFrom(words, 1, <<>>)

(***************************************************************************)
(* use-drag-select.ts : direction helpers                                  *)
(***************************************************************************)
GRID_SIZE == 10

Sign(x) == IF x > 0 THEN 1 ELSE IF x < 0 THEN -1 ELSE 0

Abs(x) == IF x < 0 THEN -x ELSE x

Max(a, b) == IF a >= b THEN a ELSE b

\* faulty variant: k / 2 rounded down (Math.floor for Math.round)
RoundHalfDown(k) == k \div 2

\* Math.round(k / 2): halves round towards +Infinity
RoundHalf(k) == (k + 1) \div 2

\* diagonal test on the signed deltas: misses the two anti-diagonals
tryLockDirectionSigned(start, cell) ==
  LET dRow == cell.row - start.row
      dCol == cell.col - start.col
  IN IF dRow = 0 /\ dCol # 0
     THEN [direction |-> "horizontal", vector |-> [dr |-> 0, dc |-> Sign(dCol)]]
     ELSE IF dRow # 0 /\ dCol = 0
     THEN [direction |-> "vertical", vector |-> [dr |-> Sign(dRow), dc |-> 0]]
     ELSE IF dRow = dCol
     THEN [direction |-> "diagonal", vector |-> [dr |-> Sign(dRow), dc |-> Sign(dCol)]]
     ELSE NullObj

tryLockDirection(start, cell) ==
  LET dRow == cell.row - start.row
      dCol == cell.col - start.col
  IN IF dRow = 0 /\ dCol # 0
     THEN [direction |-> "horizontal", vector |-> [dr |-> 0, dc |-> Sign(dCol)]]
     ELSE IF dRow # 0 /\ dCol = 0
     THEN [direction |-> "vertical", vector |-> [dr |-> Sign(dRow), dc |-> 0]]
     ELSE IF Abs(dRow) = Abs(dCol)
     THEN [direction |-> "diagonal", vector |-> [dr |-> Sign(dRow), dc |-> Sign(dCol)]]
     ELSE NullObj

\* faulty variant: steps against the locked vector are cut to zero
projectStepsForwardOnly(start, cell, vector) ==
  LET deltaRow == cell.row - start.row
      deltaCol == cell.col - start.col
  IN IF vector.dr = 0 THEN Max(0, deltaCol * Sign(vector.dc))
     ELSE IF vector.dc = 0 THEN Max(0, deltaRow * Sign(vector.dr))
     ELSE Max(0, RoundHalf(deltaRow * vector.dr + deltaCol * vector.dc))

projectSteps(start, cell, vector) ==
  LET deltaRow == cell.row - start.row
      deltaCol == cell.col - start.col
  IN IF vector.dr = 0 THEN deltaCol * Sign(vector.dc)
     ELSE IF vector.dc = 0 THEN deltaRow * Sign(vector.dr)
     ELSE RoundHalf(deltaRow * vector.dr + deltaCol * vector.dc)

\* while (n > 0) { if (endpoint in grid) break; n--; }
RECURSIVE clampLoop(_, _, _, _)
clampLoop(start, n, sign, vector) ==
  LET row == start.row + n * sign * vector.dr
      col == start.col + n * sign * vector.dc
  IN IF n > 0 /\ ~(row >= 0 /\ row < GRID_SIZE /\ col >= 0 /\ col < GRID_SIZE)
     THEN clampLoop(start, n - 1, sign, vector)
     ELSE n

\* the raw step count, not clamped to the grid
clampStepsUnclamped(start, steps, vector) == steps

clampSteps(start, steps, vector) ==
  LET sign == IF steps >= 0 THEN 1 ELSE -1
  IN clampLoop(start, Abs(steps), sign, vector) * sign

buildCellLine(start, end) ==
  LET dRow == end.row - start.row
      dCol == end.col - start.col
      steps == Max(Abs(dRow), Abs(dCol))
      stepRow == IF dRow = 0 THEN 0 ELSE Sign(dRow)
      stepCol == IF dCol = 0 THEN 0 ELSE Sign(dCol)
  IN IF steps = 0 THEN <<start>>
     ELSE [k \in 1 .. steps + 1 |->
             [row |-> start.row + (k - 1) * stepRow, col |-> start.col + (k - 1) * stepCol]]

(***************************************************************************)
(* use-drag-select.ts : reducer                                            *)
(***************************************************************************)
IDLE_STATE == [phase |-> [type |-> "idle"], startCell |-> NullObj, vector |-> NullObj]

\* after the lock the projected endpoint is appended to the path held so far
pointerEnterAppend(state, cell) ==
  LET start == state.startCell
      lock == tryLockDirection(start, cell)
      rawSteps == projectSteps(start, cell, state.vector)
      clampedSteps == clampSteps(start, rawSteps, state.vector)
      endpoint == [row |-> start.row + clampedSteps * state.vector.dr,
                   col |-> start.col + clampedSteps * state.vector.dc]
  IN IF cell.row = start.row /\ cell.col = start.col THEN state
     ELSE IF state.phase.direction = Null
     THEN IF lock = NullObj THEN state
          ELSE [phase |-> [type |-> "selecting",
                           cells |-> buildCellLine(start, cell),
                           direction |-> lock.direction],
                startCell |-> start,
                vector |-> lock.vector]
     ELSE IF state.vector = NullObj THEN state
     ELSE IF endpoint = state.phase.cells[Len(state.phase.cells)] THEN state
     ELSE [state EXCEPT !.phase = [type |-> "selecting",
                                   cells |-> Append(state.phase.cells, endpoint),
                                   direction |-> state.phase.direction]]

\* faulty variant: every aligned cell locks anew, also after a lock
pointerEnterLocksAgain(state, cell) ==
  LET start == state.startCell
      lock == tryLockDirection(start, cell)
      rawSteps == projectSteps(start, cell, state.vector)
      clampedSteps == clampSteps(start, rawSteps, state.vector)
      endpoint == [row |-> start.row + clampedSteps * state.vector.dr,
                   col |-> start.col + clampedSteps * state.vector.dc]
  IN IF cell.row = start.row /\ cell.col = start.col THEN state
     ELSE IF lock # NullObj
     THEN [phase |-> [type |-> "selecting",
                      cells |-> buildCellLine(start, cell),
                      direction |-> lock.direction],
           startCell |-> start,
           vector |-> lock.vector]
     ELSE IF state.phase.direction = Null \/ state.vector = NullObj THEN state
     ELSE [state EXCEPT !.phase = [type |-> "selecting",
                                   cells |-> buildCellLine(start, endpoint),
                                   direction |-> state.phase.direction]]

\* faulty variant: the test for the start cell is missing
pointerEnterNoStartTest(state, cell) ==
  LET start == state.startCell
      lock == tryLockDirection(start, cell)
      rawSteps == projectSteps(start, cell, state.vector)
      clampedSteps == clampSteps(start, rawSteps, state.vector)
      endpoint == [row |-> start.row + clampedSteps * state.vector.dr,
                   col |-> start.col + clampedSteps * state.vector.dc]
  IN IF state.phase.direction = Null
     THEN IF lock = NullObj THEN state
          ELSE [phase |-> [type |-> "selecting",
                           cells |-> buildCellLine(start, cell),
                           direction |-> lock.direction],
                startCell |-> start,
                vector |-> lock.vector]
     ELSE IF state.vector = NullObj THEN state
     ELSE [state EXCEPT !.phase = [type |-> "selecting",
                                   cells |-> buildCellLine(start, endpoint),
                                   direction |-> state.phase.direction]]

\* case "POINTER_ENTER" with phase selecting and a start cell
pointerEnter(state, cell) ==
  LET start == state.startCell
      lock == tryLockDirection(start, cell)
      rawSteps == projectSteps(start, cell, state.vector)
      clampedSteps == clampSteps(start, rawSteps, state.vector)
      endpoint == [row |-> start.row + clampedSteps * state.vector.dr,
                   col |-> start.col + clampedSteps * state.vector.dc]
  IN IF cell.row = start.row /\ cell.col = start.col THEN state
     ELSE IF state.phase.direction = Null
     THEN IF lock = NullObj THEN state
          ELSE [phase |-> [type |-> "selecting",
                           cells |-> buildCellLine(start, cell),
                           direction |-> lock.direction],
                startCell |-> start,
                vector |-> lock.vector]
     ELSE IF state.vector = NullObj THEN state
     ELSE [state EXCEPT !.phase = [type |-> "selecting",
                                   cells |-> buildCellLine(start, endpoint),
                                   direction |-> state.phase.direction]]

\* release without the length check
pointerUpAnyLength(state) ==
  IF state.phase.type # "selecting" THEN IDLE_STATE
  ELSE IF state.phase.direction = Null THEN IDLE_STATE
  ELSE [state EXCEPT !.phase = [type |-> "released",
                                cells |-> state.phase.cells,
                                direction |-> state.phase.direction]]

\* case "POINTER_UP"
pointerUp(state) ==
  IF state.phase.type # "selecting" THEN IDLE_STATE
  ELSE IF state.phase.direction = Null \/ Len(state.phase.cells) < 2 THEN IDLE_STATE
  ELSE [state EXCEPT !.phase = [type |-> "released",
                                cells |-> state.phase.cells,
                                direction |-> state.phase.direction]]

\* faulty variant: POINTER_DOWN is ignored while a selection is in progress
dragReducerDownWhenIdle(state, action) ==
  CASE action.type = "POINTER_DOWN" ->
         IF state.phase.type = "selecting" THEN state
         ELSE [phase |-> [type |-> "selecting", cells |-> <<action.cell>>,
                          direction |-> Null],
               startCell |-> action.cell,
               vector |-> NullObj]
    [] action.type = "POINTER_ENTER" ->
         IF state.phase.type # "selecting" \/ state.startCell = NullObj THEN state
         ELSE pointerEnter(state, action.cell)
    [] action.type = "POINTER_UP" -> pointerUp(state)
    [] action.type = "RESET" -> IDLE_STATE

\* faulty variant: POINTER_DOWN keeps the vector of the selection before
dragReducerDownKeepsVector(state, action) ==
  CASE action.type = "POINTER_DOWN" ->
         [phase |-> [type |-> "selecting", cells |-> <<action.cell>>, direction |-> Null],
          startCell |-> action.cell,
          vector |-> state.vector]
    [] action.type = "POINTER_ENTER" ->
         IF state.phase.type # "selecting" \/ state.startCell = NullObj THEN state
         ELSE pointerEnter(state, action.cell)
    [] action.type = "POINTER_UP" -> pointerUp(state)
    [] action.type = "RESET" -> IDLE_STATE

dragReducer(state, action) ==
  CASE action.type = "POINTER_DOWN" ->
         [phase |-> [type |-> "selecting", cells |-> <<action.cell>>, direction |-> Null],
          startCell |-> action.cell,
          vector |-> NullObj]
    [] action.type = "POINTER_ENTER" ->
         IF state.phase.type # "selecting" \/ state.startCell = NullObj THEN state
         ELSE pointerEnter(state, action.cell)
    [] action.type = "POINTER_UP" -> pointerUp(state)
    [] action.type = "RESET" -> IDLE_STATE

(***************************************************************************)
(* Generator inputs.  WORD_SEARCH_CONFIG is the configuration the          *)
(* application ships (lib/constants.ts); the other configs are small ones  *)
(* in which words cross, collide, overflow the grid or crowd the message.  *)
(***************************************************************************)
WORD_SEARCH_WORDS ==
  << [word |-> <<"D", "I", "N", "N">>, direction |-> "horizontal"],
     [word |-> <<"O", "T", "T", "I", "E">>, direction |-> "vertical"],
     [word |-> <<"F", "O", "R", "E", "V", "E", "R">>, direction |-> "horizontal"],
     [word |-> <<"T", "O", "R", "O", "N", "T", "O">>, direction |-> "diagonal"],
     [word |-> <<"C", "R", "I", "M", "I", "N", "A", "L">>, direction |-> "horizontal"],
     [word |-> <<"L", "O", "V", "E">>, direction |-> "vertical"],
     [word |-> <<"B", "E", "B", "E">>, direction |-> "diagonal"] >>

WORD_SEARCH_CONFIG ==
  [gridSize |-> 10,
   words |-> WORD_SEARCH_WORDS,
   hiddenMessage |-> <<"B", "E", " ", "M", "Y", " ", "V", "A", "L", "E", "N", "T",
                       "I", "N", "E">>]

WordPool ==
  { [word |-> <<"T", "O">>, direction |-> "horizontal"],
    [word |-> <<"O", "T">>, direction |-> "vertical"],
    [word |-> <<"T", "O", "T">>, direction |-> "diagonal"],
    [word |-> <<"O", "T", "T", "I", "E">>, direction |-> "vertical"],
    [word |-> <<"F", "O", "R", "E", "V", "E", "R">>, direction |-> "horizontal"] }

WordLists == UNION { [1 .. n -> WordPool] : n \in 0 .. MaxWords }

Messages ==
  { <<>>, <<"H", "I">>, <<"B", "E", " ", "M", "Y">>, WORD_SEARCH_CONFIG.hiddenMessage }

Configs ==
  { [gridSize |-> n, words |-> ws, hiddenMessage |-> m] :
      n \in 1 .. MaxGridSize, ws \in WordLists, m \in Messages }
  \cup { WORD_SEARCH_CONFIG }

\* what a call that threw leaves to its caller
Thrown(error) == [kind |-> "error", error |-> error]

(***************************************************************************)
(* grid.tsx / use-word-search.ts : constants and helpers                   *)
(***************************************************************************)
\* 1-indexed here; WORD_HIGHLIGHT_COLORS[i] of the code is entry i + 1
WORD_HIGHLIGHT_COLORS ==
  << "bg-rose-400/60", "bg-amber-400/60", "bg-orange-400/60", "bg-pink-400/60",
     "bg-fuchsia-400/60", "bg-red-400/60", "bg-yellow-400/60" >>

TOTAL_WORDS == 7

\* selected.every((c, i) => c.row === target[i].row && c.col === target[i].col)
everyForward(selected, target) ==
  \A i \in 1 .. Len(selected) :
    selected[i].row = target[i].row /\ selected[i].col = target[i].col

\* selected.every((c, i) => ... target[last - i] ...)
everyReversed(selected, target) ==
  \A i \in 1 .. Len(selected) :
    /\ selected[i].row = target[Len(target) + 1 - i].row
    /\ selected[i].col = target[Len(target) + 1 - i].col

\* only the forward comparison
cellsMatchForwardOnly(selected, target) ==
  IF Len(selected) # Len(target) THEN FALSE
  ELSE everyForward(selected, target)

cellsMatch(selected, target) ==
  IF Len(selected) # Len(target) THEN FALSE
  ELSE IF everyForward(selected, target) THEN TRUE
  ELSE everyReversed(selected, target)

INITIAL_PHASE == [type |-> "playing", foundWords |-> <<>>]

WordFoundAction(foundWord) == [type |-> "WORD_FOUND", foundWord |-> foundWord]

StartRevealAction == [type |-> "START_REVEAL"]

CompleteAction == [type |-> "COMPLETE"]

\* faulty variant: WORD_FOUND is taken in every phase
gameReducerWordFoundAnyPhase(state, action) ==
  CASE action.type = "WORD_FOUND" ->
         [type |-> state.type, foundWords |-> Append(state.foundWords, action.foundWord)]
    [] action.type = "START_REVEAL" ->
         IF state.type # "playing" THEN state
         ELSE [type |-> "revealing", foundWords |-> state.foundWords]
    [] action.type = "COMPLETE" ->
         IF state.type # "revealing" THEN state
         ELSE [type |-> "complete", foundWords |-> state.foundWords]

\* START_REVEAL without its phase guard
gameReducerUnguarded(state, action) ==
  CASE action.type = "WORD_FOUND" ->
         IF state.type # "playing" THEN state
         ELSE [type |-> "playing", foundWords |-> Append(state.foundWords, action.foundWord)]
    [] action.type = "START_REVEAL" ->
         [type |-> "revealing", foundWords |-> state.foundWords]
    [] action.type = "COMPLETE" ->
         IF state.type # "revealing" THEN state
         ELSE [type |-> "complete", foundWords |-> state.foundWords]

gameReducer(state, action) ==
  CASE action.type = "WORD_FOUND" ->
         IF state.type # "playing" THEN state
         ELSE [type |-> "playing", foundWords |-> Append(state.foundWords, action.foundWord)]
    [] action.type = "START_REVEAL" ->
         IF state.type # "playing" THEN state
         ELSE [type |-> "revealing", foundWords |-> state.foundWords]
    [] action.type = "COMPLETE" ->
         IF state.type # "revealing" THEN state
         ELSE [type |-> "complete", foundWords |-> state.foundWords]

(***************************************************************************)
(* use-word-search.ts : the hook.  sessionGrid is `grid`, the value        *)
(* useMemo keeps of the generateGrid(WORD_SEARCH_CONFIG) call of the first *)
(* render.                                                                 *)
(***************************************************************************)
sessionGrid == outcomes[1]

\* the first render has returned: the grid exists and handlers are attached
Rendered ==
  /\ genPc = "idle"
  /\ Len(outcomes) = 1
  /\ outcomes[1].kind = "grid"

\* new Set(gamePhase.foundWords.map((fw) => fw.word))
foundSet(game) == { game.foundWords[k].word : k \in 1 .. Len(game.foundWords) }

\* faulty variant: the placements are not filtered by the found words
unfoundUnfiltered(game) == sessionGrid.wordPlacements

\* grid.wordPlacements.filter((wp) => !foundSet.has(wp.word))
unfound(game) ==
  SelectSeq(sessionGrid.wordPlacements, LAMBDA wp : wp.word \notin foundSet(game))

\* for (const placement of unfound) { if (cellsMatch(...)) { ...; break; } }
RECURSIVE firstMatch(_, _, _)
firstMatch(cells, placements, k) ==
  IF k > Len(placements) THEN NullObj
  ELSE IF cellsMatch(cells, placements[k].cells) THEN placements[k]
  ELSE firstMatch(cells, placements, k + 1)

\* the placement handlePointerUp accepts for the selection, or null
acceptedPlacement(game, dragPhase) ==
  IF /\ game.type = "playing"
     /\ dragPhase.type = "selecting"
     /\ dragPhase.direction # Null
     /\ Len(dragPhase.cells) >= 2
  THEN firstMatch(dragPhase.cells, unfound(game), 1)
  ELSE NullObj

\* faulty variant: the colour index is taken after counting the new word
foundWordOfNextIndex(game, placement) ==
  [word |-> placement.word,
   cells |-> placement.cells,
   colorClass |->
     WORD_HIGHLIGHT_COLORS[((Len(game.foundWords) + 1) % Len(WORD_HIGHLIGHT_COLORS)) + 1]]

\* the foundWord handlePointerUp dispatches for an accepted placement
foundWordOf(game, placement) ==
  [word |-> placement.word,
   cells |-> placement.cells,
   colorClass |->
     WORD_HIGHLIGHT_COLORS[(Len(game.foundWords) % Len(WORD_HIGHLIGHT_COLORS)) + 1]]

\* gamePhase after handlePointerUp
gameAfterPointerUp(game, dragPhase) ==
  LET placement == acceptedPlacement(game, dragPhase)
  IN IF placement = NullObj THEN game
     ELSE gameReducer(game, WordFoundAction(foundWordOf(game, placement)))

\* faulty variant: the reveal is armed one word early
revealEffectOneEarly(timer, before, after) ==
  IF after = before THEN timer
  ELSE IF after.type = "playing" /\ Len(after.foundWords) >= TOTAL_WORDS - 1 THEN "pending"
  ELSE IF timer = "pending" THEN "cleared"
  ELSE timer

\* faulty variant: the reveal is armed only beyond TOTAL_WORDS found words
revealEffectOffByOne(timer, before, after) ==
  IF after = before THEN timer
  ELSE IF after.type = "playing" /\ Len(after.foundWords) > TOTAL_WORDS THEN "pending"
  ELSE IF timer = "pending" THEN "cleared"
  ELSE timer

\* the reveal effect (deps [gamePhase]) after a render with a new gamePhase:
\* the previous run's cleanup clears a timer the ref holds without resetting
\* the ref, then the effect schedules a timer if all words are found
revealEffect(timer, before, after) ==
  IF after = before THEN timer
  ELSE IF after.type = "playing" /\ Len(after.foundWords) >= TOTAL_WORDS THEN "pending"
  ELSE IF timer = "pending" THEN "cleared"
  ELSE timer

\* the haptic effect (deps [gamePhase.type]): haptic.pattern(3, 100) when the
\* phase type becomes revealing
hapticEffect(count, before, after) ==
  IF after.type # before.type /\ after.type = "revealing"
  THEN [count EXCEPT !.pattern = @ + 1]
  ELSE count

\* clearTimeout(ref.current) guarded by ref.current !== null: it ends the
\* callback the ref holds if that one is still scheduled
clearRef(live, timer) == IF timer = "pending" THEN live - 1 ELSE live

\* the scheduled reveal callbacks after the reveal effect has run
revealLive(live, timer, before, after) ==
  IF after = before THEN live
  ELSE IF after.type = "playing" /\ Len(after.foundWords) >= TOTAL_WORDS
  THEN clearRef(live, timer) + 1
  ELSE clearRef(live, timer)

\* faulty variant: the timer the ref holds is not cleared before the new one
triggerOtterExcitementNoClear(live, timer) == live + 1

\* triggerOtterExcitement: clear the timer of the ref, schedule a new one
triggerOtterExcitement(live, timer) == clearRef(live, timer) + 1

GameInit ==
  /\ gamePhase = INITIAL_PHASE
  /\ isOtterExcited = FALSE
  /\ otterTimer = "none"
  /\ revealTimer = "none"
  /\ mounted = TRUE
  /\ onCompleteCalls = 0
  /\ haptics = [light |-> 0, medium |-> 0, pattern |-> 0]
  /\ liveTimers = [otter |-> 0, reveal |-> 0]

(***************************************************************************)
(* experience.tsx, types/index.ts : the scene sequencer                    *)
(***************************************************************************)
\* 1-indexed here; SCENE_ORDER[i] of the code is entry i + 1
SCENE_ORDER ==
  <<"welcome", "quiz", "word-search", "poetry-canvas", "letter", "the-ask">>

\* SCENE_ORDER.indexOf(scene), 0-indexed as in the code
indexOf(scene) ==
  CHOOSE i \in 0 .. Len(SCENE_ORDER) - 1 : SCENE_ORDER[i + 1] = scene

INITIAL_STATE_Experience == [currentScene |-> "welcome"]

AdvanceAction == [type |-> "ADVANCE"]

\* faulty variant: after the last scene the order starts again
experienceReducerWraps(state, action) ==
  LET currentIndex == indexOf(state.currentScene)
      nextIndex == (currentIndex + 1) % Len(SCENE_ORDER)
  IN [currentScene |-> SCENE_ORDER[nextIndex + 1]]

experienceReducer(state, action) ==
  LET currentIndex == indexOf(state.currentScene)
      nextIndex == currentIndex + 1
  IN IF nextIndex >= Len(SCENE_ORDER) THEN state
     ELSE [currentScene |-> SCENE_ORDER[nextIndex + 1]]

(***************************************************************************)
(* use-quiz.ts : the quiz reducer                                          *)
(***************************************************************************)
\* QUIZ_QUESTIONS.length
QUIZ_QUESTIONS_length == 5

INITIAL_STATE_Quiz ==
  [questionIndex |-> 0, completedCount |-> 0, answerStatus |-> "idle", shuffleSeed |-> 0]

AnswerCorrectAction == [type |-> "ANSWER_CORRECT"]

AnswerWrongAction == [type |-> "ANSWER_WRONG"]

RetryAction == [type |-> "RETRY"]

quizReducer(state, action) ==
  CASE action.type = "ANSWER_CORRECT" ->
         [state EXCEPT !.answerStatus = "correct",
                       !.completedCount = state.completedCount + 1]
    [] action.type = "ANSWER_WRONG" ->
         [state EXCEPT !.answerStatus = "wrong"]
    [] action.type = "ADVANCE" ->
         [state EXCEPT !.questionIndex = state.questionIndex + 1,
                       !.answerStatus = "idle",
                       !.shuffleSeed = state.shuffleSeed + 1]
    [] action.type = "RETRY" ->
         [state EXCEPT !.answerStatus = "idle",
                       !.shuffleSeed = state.shuffleSeed + 1]

\* advanceTimerRef.current === null
NoAdvanceTimer == [pending |-> FALSE, isLastQuestion |-> FALSE]

(***************************************************************************)
(* use-letter.ts : the letter reducer                                      *)
(***************************************************************************)
\* LETTER_PARAGRAPHS.length
LETTER_PARAGRAPHS_length == 9

INITIAL_STATE_Letter == [visibleCount |-> 0, phase |-> "revealing"]

RevealNextAction == [type |-> "REVEAL_NEXT"]

\* faulty variant: the count goes on after the last paragraph
letterReducerNoStop(state, action) ==
  LET next == state.visibleCount + 1
  IN IF next >= LETTER_PARAGRAPHS_length
     THEN [visibleCount |-> next, phase |-> "all-visible"]
     ELSE [visibleCount |-> next, phase |-> "revealing"]

letterReducer(state, action) ==
  IF state.phase = "all-visible" THEN state
  ELSE LET next == state.visibleCount + 1
       IN IF next >= LETTER_PARAGRAPHS_length
          THEN [visibleCount |-> next, phase |-> "all-visible"]
          ELSE [visibleCount |-> next, phase |-> "revealing"]

(***************************************************************************)
(* use-ask.ts : the reducer of The Ask.  yesScale is kept in hundredths.   *)
(***************************************************************************)
INITIAL_STATE_Ask ==
  [noStage |-> 0, celebrationPhase |-> "idle", yesScale |-> 100, shakeCount |-> 0]

PressNoAction == [type |-> "PRESS_NO"]

PressYesAction == [type |-> "PRESS_YES"]

ShowCtaAction == [type |-> "SHOW_CTA"]

Min(a, b) == IF a < b THEN a ELSE b

askReducer(state, action) ==
  CASE action.type = "PRESS_NO" ->
         IF state.noStage >= 6 THEN state
         ELSE [state EXCEPT !.noStage = Min(state.noStage + 1, 6),
                            !.yesScale = Min(state.yesScale + 5, 125),
                            !.shakeCount = state.shakeCount + 1]
    [] action.type = "PRESS_YES" ->
         [state EXCEPT !.celebrationPhase = "celebrating", !.noStage = 6]
    [] action.type = "SHOW_CTA" ->
         IF state.celebrationPhase = "celebrating"
         THEN [state EXCEPT !.celebrationPhase = "cta-visible"]
         ELSE state

\* the state of the scenes when Experience mounts; a scene's hook starts from
\* its initial state when the scene is mounted, which happens once
SceneInit ==
  /\ experienceState = INITIAL_STATE_Experience
  /\ sceneCompletes = [scene \in { SCENE_ORDER[i] : i \in 1 .. Len(SCENE_ORDER) } |-> 0]
  /\ quizState = INITIAL_STATE_Quiz
  /\ advanceTimer = NoAdvanceTimer
  /\ letterState = INITIAL_STATE_Letter
  /\ letterInterval = "none"
  /\ askState = INITIAL_STATE_Ask
  /\ ctaTimer = "none"

GenIdle(cfg) ==
  /\ config = cfg
  /\ genPc = "idle"
  /\ rng = 0
  /\ workGrid = <<>>
  /\ sortedWords = <<>>
  /\ wordPlacements = <<>>
  /\ hiddenMessageCells = <<>>
  /\ outcomes = <<>>

(***************************************************************************)
(* generateGrid, one action per stage of its body.                         *)
(***************************************************************************)
\* const random = createLcg(FIXED_SEED); createEmptyGrid; toSorted
GenerateGridBegin ==
  /\ genPc = "idle"
  /\ Len(outcomes) < MaxCalls
  /\ rng' = createLcg(FIXED_SEED)
  /\ workGrid' = createEmptyGrid(config.gridSize)
  /\ sortedWords' = toSorted(config.words)
  /\ wordPlacements' = <<>>
  /\ hiddenMessageCells' = <<>>
  /\ genPc' = "placing"
  /\ UNCHANGED <<config, outcomes>>
  /\ UNCHANGED uiVars

\* faulty variant: a word that found no position is tried again
PlaceNextWordRetries ==
  /\ genPc = "placing"
  /\ sortedWords # <<>>
  /\ LET entry == Head(sortedWords)
         r == placeWord(workGrid, entry.word, entry.direction, config.gridSize, rng)
     IN IF r.kind = "ok"
        THEN /\ workGrid' = r.grid
             /\ rng' = r.rng
             /\ wordPlacements' = Append(wordPlacements, r.placement)
             /\ sortedWords' = Tail(sortedWords)
             /\ UNCHANGED <<genPc, outcomes>>
        ELSE /\ rng' = r.rng
             /\ UNCHANGED <<genPc, outcomes, workGrid, wordPlacements, sortedWords>>
  /\ UNCHANGED <<config, hiddenMessageCells>>
  /\ UNCHANGED uiVars

\* one iteration of `for (const entry of sortedWords)`
PlaceNextWord ==
  /\ genPc = "placing"
  /\ sortedWords # <<>>
  /\ LET entry == Head(sortedWords)
         r == placeWord(workGrid, entry.word, entry.direction, config.gridSize, rng)
     IN IF r.kind = "ok"
        THEN /\ workGrid' = r.grid
             /\ rng' = r.rng
             /\ wordPlacements' = Append(wordPlacements, r.placement)
             /\ sortedWords' = Tail(sortedWords)
             /\ UNCHANGED <<genPc, outcomes>>
        ELSE /\ outcomes' = Append(outcomes, Thrown(r.error))
             /\ genPc' = "idle"
             /\ rng' = r.rng
             /\ UNCHANGED <<workGrid, wordPlacements, sortedWords>>
  /\ UNCHANGED <<config, hiddenMessageCells>>
  /\ UNCHANGED uiVars

ScatterMessage ==
  /\ genPc = "placing"
  /\ sortedWords = <<>>
  /\ LET r == scatterHiddenMessage(workGrid, config.hiddenMessage, config.gridSize, rng)
     IN IF r.kind = "ok"
        THEN /\ workGrid' = r.grid
             /\ rng' = r.rng
             /\ hiddenMessageCells' = r.cells
             /\ genPc' = "filling"
             /\ UNCHANGED outcomes
        ELSE /\ outcomes' = Append(outcomes, Thrown(r.error))
             /\ genPc' = "idle"
             /\ UNCHANGED <<workGrid, rng, hiddenMessageCells>>
  /\ UNCHANGED <<config, sortedWords, wordPlacements>>
  /\ UNCHANGED uiVars

\* fillRemainingCells; freezeGrid; return { cells, wordPlacements, hiddenMessageCells }
FillAndReturn ==
  /\ genPc = "filling"
  /\ LET r == fillRemainingCells(workGrid, config.gridSize, rng)
     IN /\ workGrid' = r.grid
        /\ rng' = r.rng
        /\ outcomes' = Append(outcomes,
                              [kind |-> "grid",
                               cells |-> freezeGrid(r.grid),
                               wordPlacements |-> wordPlacements,
                               hiddenMessageCells |-> hiddenMessageCells])
  /\ genPc' = "idle"
  /\ UNCHANGED <<config, sortedWords, wordPlacements, hiddenMessageCells>>
  /\ UNCHANGED uiVars

GenNext ==
  \/ GenerateGridBegin
  \/ PlaceNextWord
  \/ ScatterMessage
  \/ FillAndReturn

GenInit == \E cfg \in Configs : GenIdle(cfg)

DragInit == dragState = IDLE_STATE

InitGen == GenInit /\ DragInit /\ GameInit /\ SceneInit

SpecGen == InitGen /\ [][GenNext]_vars

(***************************************************************************)
(* useDragSelect: the handlers and reset() dispatch into dragReducer.      *)
(***************************************************************************)
GridCells == { Cell(r, c) : r \in 0 .. GRID_SIZE - 1, c \in 0 .. GRID_SIZE - 1 }

PointerDownAction(cell) == [type |-> "POINTER_DOWN", cell |-> cell]

PointerEnterAction(cell) == [type |-> "POINTER_ENTER", cell |-> cell]

PointerUpAction == [type |-> "POINTER_UP"]

ResetAction == [type |-> "RESET"]

onPointerDown(cell) ==
  /\ dragState' = dragReducer(dragState, PointerDownAction(cell))
  /\ UNCHANGED <<genVars, sceneVars, gameVars>>

onPointerEnter(cell) ==
  /\ dragState' = dragReducer(dragState, PointerEnterAction(cell))
  /\ UNCHANGED <<genVars, sceneVars, gameVars>>

onPointerUp ==
  /\ dragState' = dragReducer(dragState, PointerUpAction)
  /\ UNCHANGED <<genVars, sceneVars, gameVars>>

reset ==
  /\ dragState' = dragReducer(dragState, ResetAction)
  /\ UNCHANGED <<genVars, sceneVars, gameVars>>

DragNext ==
  \/ \E cell \in GridCells : onPointerDown(cell)
  \/ \E cell \in GridCells : onPointerEnter(cell)
  \/ onPointerUp
  \/ reset

InitDrag == GenIdle(WORD_SEARCH_CONFIG) /\ DragInit /\ GameInit /\ SceneInit

SpecDrag == InitDrag /\ [][DragNext]_vars


(***************************************************************************)
(* useWordSearch: the handlers the hook returns, its timers and its        *)
(* effects.  An event is handled on the state of the latest render, and    *)
(* the render and effects it causes finish before the next event.          *)
(***************************************************************************)
FirstCell(placement) == placement.cells[1]

LastCell(placement) == placement.cells[Len(placement.cells)]

\* the placements the player is after: the first MaxHunted ones not yet found
Hunted ==
  LET rest == unfound(gamePhase)
  IN { rest[k] : k \in 1 .. (IF Len(rest) < MaxHunted THEN Len(rest) ELSE MaxHunted) }

\* the placement of the word found last, which the player may trace again
LastFound ==
  LET n == Len(gamePhase.foundWords)
  IN IF n = 0 THEN {}
     ELSE { wp \in { sessionGrid.wordPlacements[k] :
                         k \in 1 .. Len(sessionGrid.wordPlacements) } :
              wp.word = gamePhase.foundWords[n].word }

\* the cells the player touches: both ends of the hunted words and of the
\* word found last
PointerCells ==
  IF Rendered
  THEN { FirstCell(wp) : wp \in Hunted \cup LastFound }
         \cup { LastCell(wp) : wp \in Hunted \cup LastFound }
  ELSE {}

\* Grid forwards a cell's pointerdown to handlers.onPointerDown
GridPointerDown(cell) ==
  /\ Rendered
  /\ mounted
  /\ onPointerDown(cell)

\* Grid forwards a cell's pointerenter to handlers.onPointerEnter
GridPointerEnter(cell) ==
  /\ Rendered
  /\ mounted
  /\ onPointerEnter(cell)

\* faulty variant: reset() is called in the accepted branch only
handlePointerUpResetOnMatch ==
  /\ Rendered
  /\ mounted
  /\ LET placement == acceptedPlacement(gamePhase, dragState.phase)
         after == gameAfterPointerUp(gamePhase, dragState.phase)
     IN /\ gamePhase' = after
        /\ IF placement # NullObj
           THEN /\ haptics' = [haptics EXCEPT !.medium = @ + 1]
                /\ isOtterExcited' = TRUE
                /\ otterTimer' = "pending"
                /\ dragState' = dragReducer(dragState, ResetAction)
           ELSE UNCHANGED <<haptics, isOtterExcited, otterTimer, dragState>>
        /\ revealTimer' = revealEffect(revealTimer, gamePhase, after)
        /\ liveTimers' =
             [otter |-> IF placement # NullObj
                        THEN triggerOtterExcitement(liveTimers.otter, otterTimer)
                        ELSE liveTimers.otter,
              reveal |-> revealLive(liveTimers.reveal, revealTimer, gamePhase, after)]
  /\ UNCHANGED <<genVars, sceneVars, mounted, onCompleteCalls>>

\* faulty variant: the release is passed on to the drag machine as POINTER_UP
handlePointerUpDispatchesUp ==
  /\ Rendered
  /\ mounted
  /\ LET placement == acceptedPlacement(gamePhase, dragState.phase)
         after == gameAfterPointerUp(gamePhase, dragState.phase)
     IN /\ gamePhase' = after
        /\ IF placement # NullObj
           THEN /\ haptics' = [haptics EXCEPT !.medium = @ + 1]
                /\ isOtterExcited' = TRUE
                /\ otterTimer' = "pending"
           ELSE UNCHANGED <<haptics, isOtterExcited, otterTimer>>
        /\ revealTimer' = revealEffect(revealTimer, gamePhase, after)
        /\ liveTimers' =
             [otter |-> IF placement # NullObj
                        THEN triggerOtterExcitement(liveTimers.otter, otterTimer)
                        ELSE liveTimers.otter,
              reveal |-> revealLive(liveTimers.reveal, revealTimer, gamePhase, after)]
  /\ dragState' = dragReducer(dragState, PointerUpAction)
  /\ UNCHANGED <<genVars, sceneVars, mounted, onCompleteCalls>>

\* triggerOtterExcitement is part of the accepted branch; reset() always runs
handlePointerUp ==
  /\ Rendered
  /\ mounted
  /\ LET placement == acceptedPlacement(gamePhase, dragState.phase)
         after == gameAfterPointerUp(gamePhase, dragState.phase)
     IN /\ gamePhase' = after
        /\ IF placement # NullObj
           THEN /\ haptics' = [haptics EXCEPT !.medium = @ + 1]
                /\ isOtterExcited' = TRUE
                /\ otterTimer' = "pending"
           ELSE UNCHANGED <<haptics, isOtterExcited, otterTimer>>
        /\ revealTimer' = revealEffect(revealTimer, gamePhase, after)
        /\ liveTimers' =
             [otter |-> IF placement # NullObj
                        THEN triggerOtterExcitement(liveTimers.otter, otterTimer)
                        ELSE liveTimers.otter,
              reveal |-> revealLive(liveTimers.reveal, revealTimer, gamePhase, after)]
  /\ dragState' = dragReducer(dragState, ResetAction)
  /\ UNCHANGED <<genVars, sceneVars, mounted, onCompleteCalls>>

\* the callback of the reveal timer (REVEAL_DELAY_MS after the last word): it
\* runs when it is scheduled and was not cleared, and holds no test of its own;
\* a dispatch to an unmounted component changes nothing and runs no effect
RevealTimerFires ==
  /\ Rendered
  /\ liveTimers.reveal > 0
  /\ LET after == IF mounted THEN gameReducer(gamePhase, StartRevealAction)
                  ELSE gamePhase
     IN /\ gamePhase' = after
        /\ revealTimer' = revealEffect("none", gamePhase, after)
        /\ haptics' = hapticEffect(haptics, gamePhase, after)
        /\ liveTimers' =
             [liveTimers EXCEPT
                !.reveal = revealLive(liveTimers.reveal - 1, "none", gamePhase, after)]
  /\ UNCHANGED <<genVars, sceneVars, dragState, isOtterExcited, otterTimer, mounted, onCompleteCalls>>

\* the callback of the otter timer (OTTER_EXCITEMENT_MS after a found word)
OtterTimerFires ==
  /\ Rendered
  /\ liveTimers.otter > 0
  /\ isOtterExcited' = IF mounted THEN FALSE ELSE isOtterExcited
  /\ otterTimer' = "none"
  /\ liveTimers' = [liveTimers EXCEPT !.otter = @ - 1]
  /\ UNCHANGED <<genVars, sceneVars, dragState, gamePhase, revealTimer, mounted, onCompleteCalls,
                 haptics>>

\* faulty variant: the tap is handled in every phase
handleContinueUnguarded ==
  /\ Rendered
  /\ mounted
  /\ onCompleteCalls < MaxCalls
  /\ LET after == gameReducer(gamePhase, CompleteAction)
     IN /\ haptics' = [haptics EXCEPT !.light = @ + 1]
        /\ gamePhase' = after
        /\ onCompleteCalls' = onCompleteCalls + 1
        /\ revealTimer' = revealEffect(revealTimer, gamePhase, after)
        /\ liveTimers' =
             [liveTimers EXCEPT
                !.reveal = revealLive(liveTimers.reveal, revealTimer, gamePhase, after)]
  /\ UNCHANGED <<genVars, sceneVars, dragState, isOtterExcited, otterTimer, mounted>>

handleContinue ==
  /\ Rendered
  /\ mounted
  /\ IF gamePhase.type # "revealing"
     THEN UNCHANGED <<gamePhase, haptics, onCompleteCalls, revealTimer, liveTimers>>
     ELSE LET after == gameReducer(gamePhase, CompleteAction)
          IN /\ haptics' = [haptics EXCEPT !.light = @ + 1]
             /\ gamePhase' = after
             /\ onCompleteCalls' = onCompleteCalls + 1
             /\ revealTimer' = revealEffect(revealTimer, gamePhase, after)
             /\ liveTimers' =
                  [liveTimers EXCEPT
                     !.reveal = revealLive(liveTimers.reveal, revealTimer, gamePhase, after)]
  /\ UNCHANGED <<genVars, sceneVars, dragState, isOtterExcited, otterTimer, mounted>>

\* the cleanups that run on unmount clear both timers; the refs keep the ids
Unmount ==
  /\ Rendered
  /\ mounted
  /\ mounted' = FALSE
  /\ otterTimer' = IF otterTimer = "pending" THEN "cleared" ELSE otterTimer
  /\ revealTimer' = IF revealTimer = "pending" THEN "cleared" ELSE revealTimer
  /\ liveTimers' = [otter |-> clearRef(liveTimers.otter, otterTimer),
                    reveal |-> clearRef(liveTimers.reveal, revealTimer)]
  /\ UNCHANGED <<genVars, sceneVars, dragState, gamePhase, isOtterExcited, onCompleteCalls, haptics>>

\* const grid = useMemo(() => generateGrid(WORD_SEARCH_CONFIG), [])
useMemoGrid ==
  /\ outcomes = <<>>
  /\ GenerateGridBegin

Next ==
  \/ useMemoGrid
  \/ PlaceNextWord
  \/ ScatterMessage
  \/ FillAndReturn
  \/ \E cell \in PointerCells : GridPointerDown(cell)
  \/ \E cell \in PointerCells : GridPointerEnter(cell)
  \/ handlePointerUp
  \/ RevealTimerFires
  \/ OtterTimerFires
  \/ handleContinue
  \/ Unmount

Init == GenIdle(WORD_SEARCH_CONFIG) /\ DragInit /\ GameInit /\ SceneInit

Spec == Init /\ [][Next]_vars

\* A timer set with setTimeout and not cleared runs its callback: the reveal
\* timer fires unless the hook is unmounted first.
SpecLive == Spec /\ WF_vars(RevealTimerFires)

(***************************************************************************)
(* The hook with, in addition, START_REVEAL and COMPLETE dispatched into    *)
(* gameReducer at any moment and WORD_FOUND at any moment outside playing  *)
(* (while playing, handlePointerUp dispatches it).                         *)
(***************************************************************************)
GameActions ==
  IF Rendered
  THEN { StartRevealAction, CompleteAction }
         \cup (IF gamePhase.type = "playing" THEN {}
               ELSE { WordFoundAction(foundWordOf(gamePhase, wp)) :
                        wp \in Hunted \cup LastFound })
  ELSE {}

gameDispatch(action) ==
  /\ Rendered
  /\ mounted
  /\ LET after == gameReducer(gamePhase, action)
     IN /\ gamePhase' = after
        /\ revealTimer' = revealEffect(revealTimer, gamePhase, after)
        /\ haptics' = hapticEffect(haptics, gamePhase, after)
        /\ liveTimers' =
             [liveTimers EXCEPT
                !.reveal = revealLive(liveTimers.reveal, revealTimer, gamePhase, after)]
  /\ UNCHANGED <<genVars, sceneVars, dragState, isOtterExcited, otterTimer, mounted, onCompleteCalls>>

GameNext ==
  \/ useMemoGrid
  \/ PlaceNextWord
  \/ ScatterMessage
  \/ FillAndReturn
  \/ \E cell \in PointerCells : GridPointerDown(cell)
  \/ \E cell \in PointerCells : GridPointerEnter(cell)
  \/ handlePointerUp
  \/ RevealTimerFires
  \/ OtterTimerFires
  \/ handleContinue
  \/ Unmount
  \/ \E action \in GameActions : gameDispatch(action)

SpecGame == Init /\ [][GameNext]_vars

(***************************************************************************)
(* Experience: the sequencer with the scenes it renders.  Only the current *)
(* scene is mounted; its onComplete is handleComplete, which dispatches    *)
(* ADVANCE.  The puzzle scene is represented by its onComplete alone; its  *)
(* hook is the subject of Spec.  Haptic calls keep no state and are left   *)
(* out.                                                                    *)
(***************************************************************************)
baseVars == <<genVars, dragState, gameVars>>

currentScene == experienceState.currentScene

\* onComplete() of `scene`: ADVANCE, then the cleanups of the scene that
\* unmounts and the mount effects of the scene that mounts
onComplete(scene) ==
  LET after == experienceReducer(experienceState, AdvanceAction)
  IN /\ experienceState' = after
     /\ sceneCompletes' = [sceneCompletes EXCEPT ![scene] = @ + 1]
     /\ letterInterval' =
          IF after.currentScene = currentScene THEN letterInterval
          ELSE IF after.currentScene = "letter" /\ letterState.phase # "all-visible"
          THEN "running"
          ELSE "none"
     /\ ctaTimer' =
          IF currentScene = "the-ask" /\ after.currentScene # currentScene
                                        /\ ctaTimer = "pending"
          THEN "cleared"
          ELSE ctaTimer

\* Welcome: handleTap
handleTap ==
  /\ currentScene = "welcome"
  /\ onComplete("welcome")
  /\ UNCHANGED <<baseVars, quizState, advanceTimer, letterState, askState>>

\* faulty variant: an answer is handled also while a correct one awaits its advance
handleAnswerWhileCorrect(isCorrect) ==
  /\ currentScene = "quiz"
  /\ quizState.answerStatus = "wrong" => quizState.shuffleSeed < MaxShuffleSeed
  /\ LET retried == IF quizState.answerStatus = "wrong"
                    THEN quizReducer(quizState, RetryAction)
                    ELSE quizState
     IN IF isCorrect
        THEN /\ quizState' = quizReducer(retried, AnswerCorrectAction)
             /\ advanceTimer' =
                  [pending |-> TRUE,
                   isLastQuestion |->
                     quizState.completedCount + 1 >= QUIZ_QUESTIONS_length]
        ELSE /\ quizState' = quizReducer(retried, AnswerWrongAction)
             /\ advanceTimer' = NoAdvanceTimer
  /\ UNCHANGED <<baseVars, experienceState, sceneCompletes, letterState, letterInterval,
                 askState, ctaTimer>>

\* useQuiz: handleAnswer(option), option.isCorrect = isCorrect
handleAnswer(isCorrect) ==
  /\ currentScene = "quiz"
  /\ quizState.answerStatus = "wrong" => quizState.shuffleSeed < MaxShuffleSeed
  /\ IF quizState.answerStatus = "correct"
     THEN UNCHANGED <<quizState, advanceTimer>>
     ELSE LET retried == IF quizState.answerStatus = "wrong"
                         THEN quizReducer(quizState, RetryAction)
                         ELSE quizState
          IN IF isCorrect
             THEN /\ quizState' = quizReducer(retried, AnswerCorrectAction)
                  /\ advanceTimer' =
                       [pending |-> TRUE,
                        isLastQuestion |->
                          quizState.completedCount + 1 >= QUIZ_QUESTIONS_length]
             ELSE /\ quizState' = quizReducer(retried, AnswerWrongAction)
                  /\ advanceTimer' = NoAdvanceTimer
  /\ UNCHANGED <<baseVars, experienceState, sceneCompletes, letterState, letterInterval,
                 askState, ctaTimer>>

\* the callback of the advance timer, 600 ms after a correct answer
AdvanceTimerFires ==
  /\ advanceTimer.pending
  /\ advanceTimer' = NoAdvanceTimer
  /\ IF advanceTimer.isLastQuestion
     THEN /\ onComplete("quiz")
          /\ UNCHANGED quizState
     ELSE /\ quizState' = quizReducer(quizState, AdvanceAction)
          /\ UNCHANGED <<experienceState, sceneCompletes, letterInterval, ctaTimer>>
  /\ UNCHANGED <<baseVars, letterState, askState>>

\* WordSearch: the onComplete() of handleContinue
WordSearchComplete ==
  /\ currentScene = "word-search"
  /\ onComplete("word-search")
  /\ UNCHANGED <<baseVars, quizState, advanceTimer, letterState, askState>>

\* PoetryCanvas: handleContinueTap
handleContinueTap ==
  /\ currentScene = "poetry-canvas"
  /\ onComplete("poetry-canvas")
  /\ UNCHANGED <<baseVars, quizState, advanceTimer, letterState, askState>>

\* dispatch({ type: "REVEAL_NEXT" }) and the effect on [state.phase]
letterDispatch ==
  LET after == letterReducer(letterState, RevealNextAction)
  IN /\ letterState' = after
     /\ letterInterval' = IF after.phase = letterState.phase THEN letterInterval
                          ELSE IF after.phase = "all-visible" THEN "none"
                          ELSE "running"
     /\ UNCHANGED <<baseVars, experienceState, sceneCompletes, quizState, advanceTimer,
                    askState, ctaTimer>>

\* the callback of setInterval, every REVEAL_INTERVAL_MS
LetterIntervalTick ==
  /\ letterInterval = "running"
  /\ letterDispatch

\* Letter: onClick of the scene while phase is revealing
revealNext ==
  /\ currentScene = "letter"
  /\ letterState.phase = "revealing"
  /\ letterDispatch

\* Letter: the Continue button, rendered when phase is all-visible
LetterContinue ==
  /\ currentScene = "letter"
  /\ letterState.phase = "all-visible"
  /\ onComplete("letter")
  /\ UNCHANGED <<baseVars, quizState, advanceTimer, letterState, askState>>

\* TheAsk: the No button, rendered while noStage < 6 and the phase is idle
handleNo ==
  /\ currentScene = "the-ask"
  /\ askState.noStage < 6
  /\ askState.celebrationPhase = "idle"
  /\ askState' = askReducer(askState, PressNoAction)
  /\ UNCHANGED <<baseVars, experienceState, sceneCompletes, quizState, advanceTimer,
                 letterState, letterInterval, ctaTimer>>

\* TheAsk: the Yes button, rendered while the phase is idle
handleYes ==
  /\ currentScene = "the-ask"
  /\ askState.celebrationPhase = "idle"
  /\ askState' = askReducer(askState, PressYesAction)
  /\ ctaTimer' = "pending"
  /\ UNCHANGED <<baseVars, experienceState, sceneCompletes, quizState, advanceTimer,
                 letterState, letterInterval>>

\* setTimeout(showCta, 2000)
CtaTimerFires ==
  /\ ctaTimer = "pending"
  /\ askState' = askReducer(askState, ShowCtaAction)
  /\ ctaTimer' = "fired"
  /\ UNCHANGED <<baseVars, experienceState, sceneCompletes, quizState, advanceTimer,
                 letterState, letterInterval>>

\* TheAsk: the call-to-action button, rendered when the phase is cta-visible
handleCta ==
  /\ currentScene = "the-ask"
  /\ askState.celebrationPhase = "cta-visible"
  /\ sceneCompletes["the-ask"] < MaxCtaTaps
  /\ onComplete("the-ask")
  /\ UNCHANGED <<baseVars, quizState, advanceTimer, letterState, askState>>

ExperienceNext ==
  \/ handleTap
  \/ \E isCorrect \in BOOLEAN : handleAnswer(isCorrect)
  \/ AdvanceTimerFires
  \/ WordSearchComplete
  \/ handleContinueTap
  \/ LetterIntervalTick
  \/ revealNext
  \/ LetterContinue
  \/ handleNo
  \/ handleYes
  \/ CtaTimerFires
  \/ handleCta

SpecExperience == Init /\ [][ExperienceNext]_vars

\* setInterval calls its callback again and again until it is cleared
SpecExperienceLive == SpecExperience /\ WF_vars(LetterIntervalTick)

(***************************************************************************)
(* The scenes with, in addition, any action dispatched into askReducer and *)
(* REVEAL_NEXT into letterReducer at any moment the scene is mounted.      *)
(***************************************************************************)
AskActions == { PressNoAction, PressYesAction, ShowCtaAction }

askDispatch(action) ==
  /\ currentScene = "the-ask"
  /\ askState' = askReducer(askState, action)
  /\ UNCHANGED <<baseVars, experienceState, sceneCompletes, quizState, advanceTimer,
                 letterState, letterInterval, ctaTimer>>

letterRevealNext ==
  /\ currentScene = "letter"
  /\ letterDispatch

ReducersNext ==
  \/ ExperienceNext
  \/ \E action \in AskActions : askDispatch(action)
  \/ letterRevealNext

SpecReducers == Init /\ [][ReducersNext]_vars

(***************************************************************************)
(* Properties of the grid generator (checked under SpecGen).               *)
(***************************************************************************)
GridOutcomes == { i \in 1 .. Len(outcomes) : outcomes[i].kind = "grid" }

CellsOf(placement) == { placement.cells[k] : k \in 1 .. Len(placement.cells) }

WordCellsOf(o) == UNION { CellsOf(o.wordPlacements[k]) : k \in 1 .. Len(o.wordPlacements) }

MessageCellsOf(o) == { o.hiddenMessageCells[k] : k \in 1 .. Len(o.hiddenMessageCells) }

AllCells(n) == { Cell(r, c) : r \in 0 .. n - 1, c \in 0 .. n - 1 }

LetterAt(o, cell) == o.cells[cell.row][cell.col].letter

NonSpace(message) == SelectSeq(message, LAMBDA ch : ch # " ")

\* C1: every call of generateGrid on the same config ends the same way: the
\* same letters in every cell, the same wordPlacements and the same
\* hiddenMessageCells (or the same error); nothing carries over between calls.
C1_Determinism ==
  \A i, j \in 1 .. Len(outcomes) : outcomes[i] = outcomes[j]

C1_Witness ==
  /\ Len(outcomes) >= 2
  /\ outcomes[1].kind = "grid"
  /\ outcomes[2].kind = "grid"
  /\ Len(outcomes[2].wordPlacements) >= 2
  /\ Len(outcomes[2].hiddenMessageCells) >= 2

\* C2: in every returned grid each of the gridSize x gridSize cells is in
\* exactly one of: cell of a WordPlacement, entry of hiddenMessageCells,
\* filler (all other cells); word and message cells lie inside the grid, no
\* message cell is a word cell, and every cell holds a letter.
C2_Partition ==
  \A i \in GridOutcomes :
    LET o == outcomes[i]
        n == config.gridSize
        words == WordCellsOf(o)
        message == MessageCellsOf(o)
        filler == AllCells(n) \ (words \cup message)
    IN /\ DOMAIN o.cells = 0 .. n - 1
       /\ \A r \in 0 .. n - 1 : DOMAIN o.cells[r] = 0 .. n - 1
       /\ words \cup message \cup filler = AllCells(n)
       /\ words \cap message = {}
       /\ \A cell \in AllCells(n) :
            /\ Cardinality({ cat \in {words, message, filler} : cell \in cat }) = 1
            /\ LetterAt(o, cell) \notin {"", Null, Undefined}

C2_Witness ==
  \E i \in GridOutcomes :
    LET o == outcomes[i]
    IN /\ WordCellsOf(o) # {}
       /\ MessageCellsOf(o) # {}
       /\ AllCells(config.gridSize) \ (WordCellsOf(o) \cup MessageCellsOf(o)) # {}

\* C3: in every returned grid the letters at the cells of each WordPlacement,
\* read in order, spell its word, also where words cross and after the
\* message and the filler were written.
C3_PlacementFidelity ==
  \A i \in GridOutcomes :
    LET o == outcomes[i]
    IN \A k \in 1 .. Len(o.wordPlacements) :
         LET p == o.wordPlacements[k]
         IN /\ Len(p.cells) = Len(p.word)
            /\ \A m \in 1 .. Len(p.word) : LetterAt(o, p.cells[m]) = p.word[m]

\* two placements share a cell, and message and filler cells exist
C3_Witness ==
  \E i \in GridOutcomes :
    LET o == outcomes[i]
    IN /\ \E k, m \in 1 .. Len(o.wordPlacements) :
            k # m /\ CellsOf(o.wordPlacements[k]) \cap CellsOf(o.wordPlacements[m]) # {}
       /\ MessageCellsOf(o) # {}
       /\ Cardinality(WordCellsOf(o) \cup MessageCellsOf(o))
            < config.gridSize * config.gridSize

\* C4: in every returned grid hiddenMessageCells has one entry per non-space
\* character of hiddenMessage, the entries are pairwise distinct, and the
\* letters at them in list order are hiddenMessage without its spaces.
C4_MessageFidelity ==
  \A i \in GridOutcomes :
    LET o == outcomes[i]
        chars == NonSpace(config.hiddenMessage)
        cells == o.hiddenMessageCells
    IN /\ Len(cells) = Len(chars)
       /\ \A k, m \in 1 .. Len(cells) : k # m => cells[k] # cells[m]
       /\ \A k \in 1 .. Len(cells) : LetterAt(o, cells[k]) = chars[k]

\* a scattered message with a space in it, on a grid that also holds a word
C4_Witness ==
  \E i \in GridOutcomes :
    /\ Len(outcomes[i].hiddenMessageCells) >= 4
    /\ Len(outcomes[i].hiddenMessageCells) < Len(config.hiddenMessage)
    /\ outcomes[i].wordPlacements # <<>>

VOWELS == {"A", "E", "I", "O", "U"}

\* the 18 consonants of the weighted pool
CONSONANTS ==
  {"T", "N", "S", "R", "L", "D", "C", "M", "H", "G", "P", "B", "F", "W", "K",
   "J", "X", "Z"}

FillerCellsOf(o) ==
  AllCells(config.gridSize) \ (WordCellsOf(o) \cup MessageCellsOf(o))

\* C11: in every returned grid each cell that is neither a cell of a
\* WordPlacement nor an entry of hiddenMessageCells holds one of the pool's
\* consonants, never A, E, I, O or U.
C11_FillerConsonants ==
  \A i \in GridOutcomes :
    \A cell \in FillerCellsOf(outcomes[i]) :
      /\ LetterAt(outcomes[i], cell) \in CONSONANTS
      /\ LetterAt(outcomes[i], cell) \notin VOWELS

\* a grid with words and a message holding vowels, and ten or more fillers
C11_Witness ==
  \E i \in GridOutcomes :
    LET o == outcomes[i]
    IN /\ Cardinality(FillerCellsOf(o)) >= 10
       /\ \E cell \in WordCellsOf(o) : LetterAt(o, cell) \in VOWELS
       /\ \E cell \in MessageCellsOf(o) : LetterAt(o, cell) \in VOWELS

StepOf(direction) ==
  CASE direction = "horizontal" -> [row |-> 0, col |-> 1]
    [] direction = "vertical" -> [row |-> 1, col |-> 0]
    [] direction = "diagonal" -> [row |-> 1, col |-> 1]

EntryOf(placement) == [word |-> placement.word, direction |-> placement.direction]

\* C13: in every returned grid wordPlacements has as many entries as
\* config.words, each word of the input (with its configured direction)
\* appears in it as often as in the input, each entry has word.length cells,
\* consecutive cells differ by the step of the direction, and every cell is
\* inside the grid.
C13_PlacementShape ==
  \A i \in GridOutcomes :
    LET ps == outcomes[i].wordPlacements
        ws == config.words
        n == config.gridSize
    IN /\ Len(ps) = Len(ws)
       /\ \A k \in 1 .. Len(ws) :
            Cardinality({ m \in 1 .. Len(ps) : EntryOf(ps[m]) = ws[k] })
              = Cardinality({ m \in 1 .. Len(ws) : ws[m] = ws[k] })
       /\ \A k \in 1 .. Len(ps) :
            LET cells == ps[k].cells
                step == StepOf(ps[k].direction)
            IN /\ Len(cells) = Len(ps[k].word)
               /\ \A m \in 1 .. Len(cells) - 1 :
                    /\ cells[m + 1].row = cells[m].row + step.row
                    /\ cells[m + 1].col = cells[m].col + step.col
               /\ \A m \in 1 .. Len(cells) :
                    /\ cells[m].row \in 0 .. n - 1
                    /\ cells[m].col \in 0 .. n - 1

\* a grid in which all three directions were placed
C13_Witness ==
  \E i \in GridOutcomes :
    LET ps == outcomes[i].wordPlacements
    IN /\ Len(ps) = Len(config.words)
       /\ \A d \in {"horizontal", "vertical", "diagonal"} :
            \E k \in 1 .. Len(ps) : ps[k].direction = d /\ Len(ps[k].cells) >= 2

\* the last call stopped in placeWord: a word of the sorted list is left
StoppedAtWord == genPc = "idle" /\ outcomes # <<>> /\ sortedWords # <<>>

LastOutcome == outcomes[Len(outcomes)]

\* C14: for every config, a call in which a word finds no valid position
\* within the 200 attempts fails with the placement-exhausted generation
\* error, and no returned grid lacks a word or holds one only partly.
C14_PlacementExhausted ==
  /\ StoppedAtWord => LastOutcome = Thrown("GridGenerationError:placement")
  /\ \A i \in GridOutcomes :
       LET o == outcomes[i]
       IN /\ Len(o.wordPlacements) = Len(config.words)
          /\ \A k \in 1 .. Len(o.wordPlacements) :
               LET p == o.wordPlacements[k]
               IN /\ Len(p.cells) = Len(p.word)
                  /\ \A m \in 1 .. Len(p.word) : LetterAt(o, p.cells[m]) = p.word[m]

\* a call stopped at a vertical word longer than the grid is high
C14_Witness ==
  /\ StoppedAtWord
  /\ Head(sortedWords).direction = "vertical"
  /\ Len(Head(sortedWords).word) > config.gridSize

\* the cells of the working grid that hold no letter yet
EmptyCellsNow ==
  { cell \in AllCells(config.gridSize) : workGrid[cell.row][cell.col] = Null }

\* all words are placed and the message is next
AllWordsPlaced == genPc = "placing" /\ sortedWords = <<>>

\* C15: once all words are placed, the call fails with the insufficient-
\* capacity generation error exactly if fewer cells are empty than
\* hiddenMessage has non-space characters; otherwise every non-space
\* character is written to a cell of its own that was empty, and no returned
\* grid holds a shortened message.
C15_Capacity ==
  /\ [][AllWordsPlaced =>
          LET chars == NonSpace(config.hiddenMessage)
          IN IF Cardinality(EmptyCellsNow) < Len(chars)
             THEN /\ outcomes' = Append(outcomes, Thrown("GridGenerationError:capacity"))
                  /\ genPc' = "idle"
             ELSE /\ outcomes' = outcomes
                  /\ genPc' = "filling"
                  /\ Len(hiddenMessageCells') = Len(chars)
                  /\ \A k \in 1 .. Len(chars) :
                       /\ hiddenMessageCells'[k] \in EmptyCellsNow
                       /\ workGrid'[hiddenMessageCells'[k].row][hiddenMessageCells'[k].col]
                            = chars[k]
                  /\ Cardinality({ hiddenMessageCells'[k] : k \in 1 .. Len(chars) })
                       = Len(chars)]_vars
  /\ [][(/\ outcomes' # outcomes
          /\ outcomes'[Len(outcomes')] = Thrown("GridGenerationError:capacity"))
         => AllWordsPlaced]_vars
  /\ [](\A i \in GridOutcomes :
          Len(outcomes[i].hiddenMessageCells) = Len(NonSpace(config.hiddenMessage)))

\* the capacity error after a word was placed, on a grid with empty cells left
C15_Witness ==
  /\ genPc = "idle"
  /\ outcomes # <<>>
  /\ LastOutcome = Thrown("GridGenerationError:capacity")
  /\ wordPlacements # <<>>
  /\ EmptyCellsNow # {}

\* C16: every failing call of generateGrid fails either with the placement-
\* exhausted error or with the insufficient-capacity error, two different
\* error values, and a failing call hands back the error only, no grid.
C16_TwoFailureKinds ==
  \A i \in 1 .. Len(outcomes) :
    outcomes[i].kind # "grid" =>
      /\ outcomes[i].kind = "error"
      /\ outcomes[i].error \in {"GridGenerationError:placement",
                                "GridGenerationError:capacity"}
      /\ DOMAIN outcomes[i] = {"kind", "error"}

\* two calls on one config have both failed
C16_Witness ==
  /\ Len(outcomes) = 2
  /\ outcomes[1].kind = "error"
  /\ outcomes[2].kind = "error"

(***************************************************************************)
(* Properties of the drag reducer (checked under SpecDrag).  A property of *)
(* "every pointerEnter(c)" is stated on each reachable state for every     *)
(* cell c the grid can forward.                                            *)
(***************************************************************************)
InGrid(cell) ==
  /\ cell.row >= 0 /\ cell.row < 10
  /\ cell.col >= 0 /\ cell.col < 10

\* path is the run from `from` to `to`: both ends included, every step the
\* same move to an orthogonal or diagonal neighbour
IsRun(path, from, to) ==
  /\ Len(path) >= 1
  /\ path[1] = from
  /\ path[Len(path)] = to
  /\ \A k \in 1 .. Len(path) - 1 :
       /\ path[k + 1].row - path[k].row \in {-1, 0, 1}
       /\ path[k + 1].col - path[k].col \in {-1, 0, 1}
       /\ path[k + 1] # path[k]
       /\ path[k + 1].row - path[k].row = path[2].row - path[1].row
       /\ path[k + 1].col - path[k].col = path[2].col - path[1].col

Selecting == dragState.phase.type = "selecting"

Locked == Selecting /\ dragState.phase.direction # Null

AfterEnter(c) == dragReducer(dragState, PointerEnterAction(c))

C6_Release ==
  LET after == dragReducer(dragState, PointerUpAction)
  IN /\ IF Locked /\ Len(dragState.phase.cells) >= 2
        THEN /\ after.phase.type = "released"
             /\ after.phase.cells = dragState.phase.cells
             /\ after.phase.direction = dragState.phase.direction
        ELSE after.phase.type = "idle"
     /\ dragState.phase.type = "released" =>
          /\ dragState.phase.direction # Null
          /\ Len(dragState.phase.cells) >= 2

C6_Witness ==
  /\ dragState.phase.type = "released"
  /\ dragState.phase.direction = "vertical"
  /\ Len(dragState.phase.cells) = 4

\* a locked selection that was dragged back to a single cell
C6_WitnessSingleCell ==
  /\ Locked
  /\ Len(dragState.phase.cells) = 1

\* the endpoint pointerEnter(c) projects to before clamping
RawEndpoint(c) ==
  LET raw == projectSteps(dragState.startCell, c, dragState.vector)
  IN [row |-> dragState.startCell.row + raw * dragState.vector.dr,
      col |-> dragState.startCell.col + raw * dragState.vector.dc]

\* the unit move from the start cell towards the raw endpoint of c
Towards(c) ==
  [dr |-> Sign(RawEndpoint(c).row - dragState.startCell.row),
   dc |-> Sign(RawEndpoint(c).col - dragState.startCell.col)]

\* C9: every cell of the selection path lies in the grid; once a direction is
\* locked, a pointerEnter whose projected endpoint lies outside the grid
\* yields as endpoint the farthest in-grid cell on the locked axis in that
\* direction.
C9_PathInGrid ==
  /\ dragState.phase.type # "idle" =>
       \A k \in 1 .. Len(dragState.phase.cells) : InGrid(dragState.phase.cells[k])
  /\ Locked =>
       \A c \in GridCells :
         ~InGrid(RawEndpoint(c)) =>
           LET path == AfterEnter(c).phase.cells
               end == path[Len(path)]
               step == Towards(c)
           IN /\ InGrid(end)
              /\ ~InGrid([row |-> end.row + step.dr, col |-> end.col + step.dc])
              /\ \E n \in 0 .. 9 :
                   end = [row |-> dragState.startCell.row + n * step.dr,
                          col |-> dragState.startCell.col + n * step.dc]
              /\ IsRun(path, dragState.startCell, end)

\* start (0,5), locked diagonal down-right, pointer at (9,5): the projection
\* is 5 steps, (5,10), and the path ends at (4,9)
C9_Witness ==
  /\ Locked
  /\ dragState.startCell = Cell(0, 5)
  /\ dragState.vector = [dr |-> 1, dc |-> 1]
  /\ ~InGrid(RawEndpoint(Cell(9, 5)))
  /\ dragState = AfterEnter(Cell(9, 5))
  /\ dragState.phase.cells[Len(dragState.phase.cells)] = Cell(4, 9)

\* the endpoint of pointerEnter(c): projected onto the axis, clamped
ClampedEndpoint(c) ==
  LET start == dragState.startCell
      n == clampSteps(start, projectSteps(start, c, dragState.vector), dragState.vector)
  IN [row |-> start.row + n * dragState.vector.dr,
      col |-> start.col + n * dragState.vector.dc]

\* C10 as stated: once a direction is locked, after every pointerEnter(c)
\* the path is the run from the start cell to the endpoint obtained by
\* projecting c onto the locked axis and clamping it to the grid, whatever the
\* path was before.  Fails for c = start cell: the reducer returns the state
\* unchanged and the longer path stays.
C10_PathRebuilt ==
  Locked =>
    \A c \in GridCells :
      LET path == AfterEnter(c).phase.cells
      IN IF ClampedEndpoint(c) = dragState.startCell
         THEN path = <<dragState.startCell>>
         ELSE IsRun(path, dragState.startCell, ClampedEndpoint(c))

\* C10 amended: once a direction is locked, after every pointerEnter(c) with
\* c different from the start cell the path is the run from the start cell to
\* the endpoint obtained by projecting c onto the locked axis and clamping it
\* to the grid, whatever the path was before.
C10_PathRebuiltOffStart ==
  Locked =>
    \A c \in GridCells \ {dragState.startCell} :
      LET after == AfterEnter(c)
          path == after.phase.cells
      IN /\ IF ClampedEndpoint(c) = dragState.startCell
            THEN path = <<dragState.startCell>>
            ELSE IsRun(path, dragState.startCell, ClampedEndpoint(c))
         /\ after.phase.type = "selecting"
         /\ after.phase.direction = dragState.phase.direction
         /\ after.startCell = dragState.startCell
         /\ after.vector = dragState.vector

\* start (3,2), locked horizontal, pointer off the axis at (7,4): the path is
\* (3,2),(3,3),(3,4)
C10_Witness ==
  /\ Locked
  /\ dragState.startCell = Cell(3, 2)
  /\ dragState.phase.direction = "horizontal"
  /\ dragState = AfterEnter(Cell(7, 4))
  /\ dragState.phase.cells = <<Cell(3, 2), Cell(3, 3), Cell(3, 4)>>

\* cells next to the grid on every side: no cell the grid renders
OutsideCells ==
  { Cell(r, c) : r \in -1 .. GRID_SIZE, c \in -1 .. GRID_SIZE } \ GridCells

AfterDown(c) == dragReducer(dragState, PointerDownAction(c))

\* C17: in every drag phase pointerDown, pointerEnter, pointerUp and reset
\* yield a drag state (no error), and a pointerDown or pointerEnter whose cell
\* is outside 0 <= row, col < 10 leaves phase, path, start cell and direction
\* as they were.
C17_OutsideCellIgnored ==
  /\ dragReducer(dragState, PointerUpAction).phase.type \in {"idle", "released"}
  /\ dragReducer(dragState, ResetAction) = IDLE_STATE
  /\ \A c \in GridCells \cup OutsideCells :
       /\ AfterDown(c).phase.type \in {"idle", "selecting", "released"}
       /\ AfterEnter(c).phase.type \in {"idle", "selecting", "released"}
  /\ \A c \in OutsideCells :
       /\ AfterDown(c) = dragState
       /\ AfterEnter(c) = dragState

\* a locked selection whose path a pointerEnter outside the grid changes
C17_Witness ==
  /\ Locked
  /\ \E c \in OutsideCells : AfterEnter(c).phase.cells # dragState.phase.cells

\* C26: pointerDown(c) from any drag phase (idle, selecting with or without
\* a lock, released) yields phase selecting with path [c], start cell c, no
\* locked direction and no vector: nothing of an earlier selection is kept,
\* and it is not turned into a released selection.
C26_PointerDownRestarts ==
  \A c \in GridCells :
    AfterDown(c) = [phase |-> [type |-> "selecting", cells |-> <<c>>, direction |-> Null],
                    startCell |-> c,
                    vector |-> NullObj]

\* a released diagonal selection of three or more cells, about to be replaced
C26_Witness ==
  /\ dragState.phase.type = "released"
  /\ dragState.phase.direction = "diagonal"
  /\ Len(dragState.phase.cells) >= 3
  /\ AfterDown(dragState.phase.cells[2]).phase.type = "selecting"

\* C27: while selecting, pointerEnter on the start cell changes nothing:
\* path, direction, vector and start cell are as before, with and without a
\* locked direction.
C27_StartCellNoOp ==
  Selecting =>
    LET after == AfterEnter(dragState.startCell)
    IN /\ after.phase.type = "selecting"
       /\ after.phase.cells = dragState.phase.cells
       /\ after.phase.direction = dragState.phase.direction
       /\ after.vector = dragState.vector
       /\ after.startCell = dragState.startCell

\* a horizontal selection of five cells whose start cell is entered again
C27_Witness ==
  /\ Locked
  /\ dragState.phase.direction = "horizontal"
  /\ Len(dragState.phase.cells) = 5
  /\ AfterEnter(dragState.startCell) = dragState

\* the cell n steps along the locked vector from the start cell (n < 0:
\* against the vector)
OnAxis(n) ==
  [row |-> dragState.startCell.row + n * dragState.vector.dr,
   col |-> dragState.startCell.col + n * dragState.vector.dc]

\* the cells 0, 1, ..., |n| steps from the start cell towards OnAxis(n)
AxisPath(n) ==
  [i \in 1 .. Abs(n) + 1 |-> OnAxis(IF n >= 0 THEN i - 1 ELSE 1 - i)]

\* C28: with a locked direction, for every in-grid cell c on the locked axis
\* through the start cell s, on either side of s, pointerEnter(c) yields the
\* path s, ..., c along the axis, s first, whatever the path was before
\* (longer, shorter or on the other side of s); direction label, vector and
\* start cell stay the same.
C28_BackwardDrag ==
  Locked =>
    \A n \in (1 - GRID_SIZE .. GRID_SIZE - 1) \ {0} :
      InGrid(OnAxis(n)) =>
        LET after == AfterEnter(OnAxis(n))
        IN /\ after.phase.type = "selecting"
           /\ after.phase.cells = AxisPath(n)
           /\ after.phase.cells[1] = dragState.startCell
           /\ after.phase.cells[Len(after.phase.cells)] = OnAxis(n)
           /\ after.phase.direction = dragState.phase.direction
           /\ after.vector = dragState.vector
           /\ after.startCell = dragState.startCell

\* a diagonal selection that now lies against the vector it was locked with,
\* with room on the axis on both sides of the start cell
C28_Witness ==
  /\ Locked
  /\ dragState.phase.direction = "diagonal"
  /\ Len(dragState.phase.cells) >= 3
  /\ dragState.phase.cells[3] = OnAxis(-2)
  /\ InGrid(OnAxis(2))

\* offset of cell c from the start cell, and its dot product with the
\* locked vector
OffsetRow(c) == c.row - dragState.startCell.row

OffsetCol(c) == c.col - dragState.startCell.col

Dot(c) == OffsetRow(c) * dragState.vector.dr + OffsetCol(c) * dragState.vector.dc

\* squared distance between cell c and the on-axis cell n steps from start
Dist2(c, n) ==
  (OffsetRow(c) - n * dragState.vector.dr) * (OffsetRow(c) - n * dragState.vector.dr)
    + (OffsetCol(c) - n * dragState.vector.dc) * (OffsetCol(c) - n * dragState.vector.dc)

StepRange == (0 - 2 * GRID_SIZE) .. (2 * GRID_SIZE)

\* C29: with a diagonal lock the step count before clamping is Dot / 2
\* rounded to the nearest integer, which is the on-axis cell closest to the
\* pointer cell; if Dot is odd (two on-axis cells equally close) it is the
\* one further along the locked vector, for positive and negative Dot alike;
\* its magnitude is at most max(|dRow|, |dCol|); and the path pointerEnter
\* builds ends at that cell whenever it is in the grid.
C29_DiagonalRounding ==
  (Locked /\ dragState.phase.direction = "diagonal") =>
    \A c \in GridCells :
      LET steps == projectSteps(dragState.startCell, c, dragState.vector)
          after == AfterEnter(c)
      IN /\ 2 * steps \in {Dot(c), Dot(c) + 1}
         /\ \A n \in StepRange :
              /\ Dist2(c, steps) <= Dist2(c, n)
              /\ Dist2(c, n) = Dist2(c, steps) => n <= steps
         /\ Abs(steps) <= Max(Abs(OffsetRow(c)), Abs(OffsetCol(c)))
         /\ (c # dragState.startCell /\ InGrid(OnAxis(steps)))
              => after.phase.cells[Len(after.phase.cells)] = OnAxis(steps)

\* a diagonal lock with pointer cells at odd dot product on both sides
C29_Witness ==
  /\ Locked
  /\ dragState.phase.direction = "diagonal"
  /\ \E c \in GridCells : Dot(c) = 3
  /\ \E c \in GridCells : Dot(c) = -3

\* the direction label a drag state carries, null when it has none
DirectionOf(state) ==
  IF state.phase.type = "idle" THEN Null ELSE state.phase.direction

\* C30: once a direction is locked, pointerEnter with any cell, inside or
\* next to the grid, leaves the direction label and the step vector as they
\* are; a step that changes them is a pointerDown (a new one-cell selection
\* with no direction) or ends in the idle state (pointerUp, reset).
C30_LockIsFinal ==
  /\ [](Locked =>
          \A c \in GridCells \cup OutsideCells :
            /\ AfterEnter(c).phase.type = "selecting"
            /\ AfterEnter(c).phase.direction = dragState.phase.direction
            /\ AfterEnter(c).vector = dragState.vector)
  /\ [][(/\ DirectionOf(dragState) # Null
          /\ \/ DirectionOf(dragState') # DirectionOf(dragState)
             \/ dragState'.vector # dragState.vector)
         => \/ dragState' = IDLE_STATE
            \/ /\ dragState'.phase.type = "selecting"
               /\ dragState'.phase.direction = Null
               /\ dragState'.phase.cells = <<dragState'.startCell>>
               /\ dragState'.vector = NullObj]_vars

\* a horizontal selection, with cells that would lock vertical or diagonal
C30_Witness ==
  /\ Locked
  /\ dragState.phase.direction = "horizontal"
  /\ Len(dragState.phase.cells) = 3
  /\ \E c, d \in GridCells :
       /\ tryLockDirection(dragState.startCell, c) # NullObj
       /\ tryLockDirection(dragState.startCell, c).direction = "vertical"
       /\ tryLockDirection(dragState.startCell, d) # NullObj
       /\ tryLockDirection(dragState.startCell, d).direction = "diagonal"

\* C38: in every reachable drag state, phase idle has no start cell and no
\* vector; a selecting phase has a non-empty path that starts at the start
\* cell and whose consecutive cells differ by one constant unit step; in a
\* selecting or released phase the direction is null exactly when the vector
\* is null, and then the path is the single start cell; a direction label
\* agrees with the vector: horizontal has dr = 0, vertical has dc = 0,
\* diagonal has dr and dc both non-zero, each component being -1, 0 or 1.
C38_DragStateWellFormed ==
  LET phase == dragState.phase
      vector == dragState.vector
  IN /\ phase.type \in {"idle", "selecting", "released"}
     /\ phase.type = "idle" =>
          dragState.startCell = NullObj /\ vector = NullObj
     /\ phase.type = "selecting" =>
          /\ dragState.startCell # NullObj
          /\ IsRun(phase.cells, dragState.startCell, phase.cells[Len(phase.cells)])
     /\ phase.type \in {"selecting", "released"} =>
          /\ phase.direction = Null <=> vector = NullObj
          /\ phase.direction = Null => phase.cells = <<dragState.startCell>>
          /\ phase.direction # Null =>
               /\ phase.direction \in {"horizontal", "vertical", "diagonal"}
               /\ vector.dr \in {-1, 0, 1} /\ vector.dc \in {-1, 0, 1}
               /\ phase.direction = "horizontal" => vector.dr = 0 /\ vector.dc # 0
               /\ phase.direction = "vertical" => vector.dc = 0 /\ vector.dr # 0
               /\ phase.direction = "diagonal" => vector.dr # 0 /\ vector.dc # 0

\* a selection locked on the rising diagonal, three cells or more
C38_Witness ==
  /\ Locked
  /\ dragState.phase.direction = "diagonal"
  /\ dragState.vector = [dr |-> -1, dc |-> 1]
  /\ Len(dragState.phase.cells) >= 3

(***************************************************************************)
(* Properties of the orchestrator hook (checked under Spec and SpecGame).  *)
(***************************************************************************)
Reverse(seq) == [i \in 1 .. Len(seq) |-> seq[Len(seq) + 1 - i]]

Placements ==
  { sessionGrid.wordPlacements[k] : k \in 1 .. Len(sessionGrid.wordPlacements) }

NotYetFound == { p \in Placements : p.word \notin foundSet(gamePhase) }

\* the step is a handlePointerUp that releases a selection while playing
ReleaseWhilePlaying ==
  /\ Rendered
  /\ gamePhase.type = "playing"
  /\ dragState.phase.type = "selecting"
  /\ dragState'.phase.type = "idle"

\* the step appends FoundWord(p.word, p.cells) to the found list
Accepts(p) ==
  /\ gamePhase'.type = "playing"
  /\ Len(gamePhase'.foundWords) = Len(gamePhase.foundWords) + 1
  /\ SubSeq(gamePhase'.foundWords, 1, Len(gamePhase.foundWords)) = gamePhase.foundWords
  /\ gamePhase'.foundWords[Len(gamePhase'.foundWords)].word = p.word
  /\ gamePhase'.foundWords[Len(gamePhase'.foundWords)].cells = p.cells

\* C7: while playing, for every not-yet-found placement p, releasing a
\* selection whose path is p.cells or p.cells reversed appends the FoundWord
\* with p.word and p.cells in placement order; a path of another length or
\* differing in a cell from both sequences is not accepted for p.
C7_ReversedMatch ==
  [][ReleaseWhilePlaying =>
       \A p \in NotYetFound :
         IF /\ dragState.phase.direction # Null
            /\ \/ dragState.phase.cells = p.cells
               \/ dragState.phase.cells = Reverse(p.cells)
         THEN Accepts(p)
         ELSE ~Accepts(p)]_vars

\* one word is found and the selection about to be released is the reversed
\* path of a word not yet found
C7_Witness ==
  /\ Rendered
  /\ gamePhase.type = "playing"
  /\ gamePhase.foundWords # <<>>
  /\ Locked
  /\ \E p \in NotYetFound :
       /\ dragState.phase.cells = Reverse(p.cells)
       /\ dragState.phase.cells # p.cells

\* C8: whatever actions are dispatched and whatever pointer events and timer
\* firings occur, the game phase changes only from playing to revealing and
\* from revealing to complete.
C8_ForwardOnly ==
  [][\/ gamePhase'.type = gamePhase.type
     \/ gamePhase.type = "playing" /\ gamePhase'.type = "revealing"
     \/ gamePhase.type = "revealing" /\ gamePhase'.type = "complete"]_vars

\* all three phases were visited, the last one through handleContinue
C8_Witness ==
  /\ gamePhase.type = "complete"
  /\ Len(gamePhase.foundWords) = TOTAL_WORDS
  /\ haptics.pattern = 1
  /\ onCompleteCalls = 1

AllFound == Len(gamePhase.foundWords) >= TOTAL_WORDS

\* C18: the step that finds the 7th word leaves Game Phase playing and arms
\* the pause; the phase becomes revealing only from there, when the pause has
\* run out, never with fewer than 7 words found; and with all 7 found the
\* phase does become revealing unless the hook is unmounted first.
C18_RevealAfterPause ==
  /\ [](gamePhase.type = "revealing" => Len(gamePhase.foundWords) = 7)
  /\ [][(Len(gamePhase.foundWords) = 6 /\ Len(gamePhase'.foundWords) = 7)
         => (gamePhase'.type = "playing" /\ revealTimer' = "pending")]_vars
  /\ [][(gamePhase.type # "revealing" /\ gamePhase'.type = "revealing")
         => (/\ gamePhase.type = "playing"
             /\ Len(gamePhase.foundWords) = 7
             /\ revealTimer = "pending"
             /\ revealTimer' = "none")]_vars
  /\ ((gamePhase.type = "playing" /\ AllFound /\ mounted)
        ~> (gamePhase.type = "revealing" \/ ~mounted))

\* the pause has run out: revealing with all seven words found
C18_Witness ==
  /\ gamePhase.type = "revealing"
  /\ Len(gamePhase.foundWords) = 7
  /\ revealTimer = "none"
  /\ mounted

\* a step taken on the player's input: a pointer event on the grid, a
\* release, or a tap on "Tap to continue"
PlayerInput ==
  \/ \E cell \in PointerCells : GridPointerDown(cell)
  \/ \E cell \in PointerCells : GridPointerEnter(cell)
  \/ handlePointerUp
  \/ handleContinue

\* C19: once Game Phase is revealing it becomes complete and onComplete is
\* called (unless the hook is unmounted first) by timers alone: no player
\* input during the revealing phase changes the phase or calls onComplete.
C19_RevealCompletesByTimers ==
  /\ ((gamePhase.type = "revealing" /\ mounted)
        ~> ((gamePhase.type = "complete" /\ onCompleteCalls >= 1) \/ ~mounted))
  /\ [][(gamePhase.type = "revealing" /\ PlayerInput)
         => (gamePhase' = gamePhase /\ onCompleteCalls' = onCompleteCalls)]_vars

\* complete, reached from revealing by the one tap on "Tap to continue"
C19_Witness ==
  /\ gamePhase.type = "complete"
  /\ onCompleteCalls = 1
  /\ haptics.light = 1
  /\ haptics.pattern = 1

\* C20: onComplete is called at most once in a session, and every call comes
\* with the step from revealing to complete: none while playing, and a tap on
\* continue in the complete phase calls nothing.
C20_CompleteOnce ==
  /\ [](onCompleteCalls <= 1)
  /\ [](gamePhase.type # "complete" => onCompleteCalls = 0)
  /\ [][onCompleteCalls' # onCompleteCalls
         => (/\ onCompleteCalls' = onCompleteCalls + 1
             /\ gamePhase.type = "revealing"
             /\ gamePhase'.type = "complete")]_vars
  /\ [][(gamePhase.type # "revealing" /\ handleContinue) => UNCHANGED vars]_vars

\* the session has ended after its one completion call
C20_Witness ==
  /\ onCompleteCalls = 1
  /\ gamePhase.type = "complete"
  /\ Len(gamePhase.foundWords) = TOTAL_WORDS
  /\ ~mounted

\* the step resets a drag that was selecting: a release handled by
\* handlePointerUp
ReleaseStep == dragState.phase.type = "selecting" /\ dragState'.phase.type = "idle"

\* the found-word list after the step is the list before plus one entry
AppendsOne ==
  /\ Len(gamePhase'.foundWords) = Len(gamePhase.foundWords) + 1
  /\ SubSeq(gamePhase'.foundWords, 1, Len(gamePhase.foundWords)) = gamePhase.foundWords

\* C21: the found-word list changes only in a release step while Game Phase
\* is playing, and then by one FoundWord appended at the end, the earlier
\* entries staying as they are; START_REVEAL, COMPLETE, WORD_FOUND outside
\* playing, timer callbacks and pointer events in revealing or complete
\* leave it unchanged.
C21_AppendOnly ==
  /\ [][gamePhase'.foundWords # gamePhase.foundWords
         => (/\ gamePhase.type = "playing"
             /\ gamePhase'.type = "playing"
             /\ ReleaseStep
             /\ AppendsOne)]_vars
  /\ [][gamePhase.type # "playing"
         => gamePhase'.foundWords = gamePhase.foundWords]_vars

\* a drag is under way in the revealing phase, with the seven words listed
C21_Witness ==
  /\ gamePhase.type = "revealing"
  /\ Len(gamePhase.foundWords) = TOTAL_WORDS
  /\ Locked

\* C22: every pointer-up the orchestrator handles (a matching or a
\* non-matching release, a single-cell tap, a release in revealing or
\* complete) leaves the drag state idle; and reset() yields the idle state
\* from the current drag phase and from the released phase a POINTER_UP
\* makes of it.
C22_IdleAfterRelease ==
  /\ ~ENABLED (handlePointerUp /\ dragState' # IDLE_STATE)
  /\ dragReducer(dragState, ResetAction) = IDLE_STATE
  /\ dragReducer(dragReducer(dragState, PointerUpAction), ResetAction) = IDLE_STATE

\* a locked selection that matches no word is about to be released
C22_Witness ==
  /\ Rendered
  /\ mounted
  /\ Locked
  /\ dragReducer(dragState, PointerUpAction).phase.type = "released"
  /\ acceptedPlacement(gamePhase, dragState.phase) = NullObj

\* the selection about to be released is the path, forward or reversed, of
\* a placement not yet found
MatchesUnfound ==
  /\ dragState.phase.direction # Null
  /\ \E p \in NotYetFound :
       dragState.phase.cells \in {p.cells, Reverse(p.cells)}

\* C23: a release while playing whose path matches no placement not yet
\* found (the path of a word already found included) leaves the found-word
\* list and Game Phase as they are and triggers no discovery side-effect:
\* no haptic, no otter excitement, no new timer.
C23_NoMatchNoEffect ==
  [][(ReleaseWhilePlaying /\ ~MatchesUnfound)
      => (/\ gamePhase' = gamePhase
          /\ haptics' = haptics
          /\ isOtterExcited' = isOtterExcited
          /\ otterTimer' = otterTimer
          /\ revealTimer' = revealTimer
          /\ onCompleteCalls' = onCompleteCalls)]_vars

\* the path of a word already found is selected again while words are left
C23_Witness ==
  /\ Rendered
  /\ mounted
  /\ gamePhase.type = "playing"
  /\ Locked
  /\ NotYetFound # {}
  /\ \E k \in 1 .. Len(gamePhase.foundWords) :
       dragState.phase.cells = gamePhase.foundWords[k].cells

\* C24: in every reachable state the number of found words is between 0 and
\* 6 while Game Phase is playing, and exactly 7 while it is revealing or
\* complete.
C24_FoundCount ==
  /\ gamePhase.type = "playing" => Len(gamePhase.foundWords) \in 0 .. 6
  /\ gamePhase.type \in {"revealing", "complete"} => Len(gamePhase.foundWords) = 7

\* C24 (amended): the number of found words is between 0 and 7 while Game
\* Phase is playing, 7 only once the pause before the reveal has been armed,
\* and exactly 7 while it is revealing or complete.
C24_FoundCountWithPause ==
  /\ gamePhase.type = "playing" =>
       /\ Len(gamePhase.foundWords) \in 0 .. 7
       /\ Len(gamePhase.foundWords) = 7 => revealTimer \in {"pending", "cleared"}
       /\ Len(gamePhase.foundWords) < 7 => revealTimer = "none"
  /\ gamePhase.type \in {"revealing", "complete"} => Len(gamePhase.foundWords) = 7

\* the pause: still playing with the seventh word found and the timer pending
C24_Witness ==
  /\ gamePhase.type = "playing"
  /\ Len(gamePhase.foundWords) = 7
  /\ revealTimer = "pending"
  /\ mounted

\* WORD_HIGHLIGHT_COLORS[k mod 7] of the code, k counted from 0
ColourOfRank(k) == WORD_HIGHLIGHT_COLORS[(k % 7) + 1]

\* C25: the k-th word found (k = 0, 1, ...) carries the highlight
\* WORD_HIGHLIGHT_COLORS[k mod 7]; the found words carry pairwise different
\* colours; and no step changes the colour of a word found before it.
C25_HighlightByRank ==
  /\ [](\A k \in 1 .. Len(gamePhase.foundWords) :
          gamePhase.foundWords[k].colorClass = ColourOfRank(k - 1))
  /\ [](\A k, m \in 1 .. Len(gamePhase.foundWords) :
          k # m => gamePhase.foundWords[k].colorClass # gamePhase.foundWords[m].colorClass)
  /\ [][\A k \in 1 .. Len(gamePhase.foundWords) :
          /\ k <= Len(gamePhase'.foundWords)
          /\ gamePhase'.foundWords[k].word = gamePhase.foundWords[k].word
          /\ gamePhase'.foundWords[k].colorClass = gamePhase.foundWords[k].colorClass]_vars

\* all seven words found, the last with the last colour of the palette
C25_Witness ==
  /\ Len(gamePhase.foundWords) = 7
  /\ gamePhase.foundWords[1].colorClass = "bg-rose-400/60"
  /\ gamePhase.foundWords[7].colorClass = "bg-yellow-400/60"

NoLiveTimers == liveTimers = [otter |-> 0, reveal |-> 0]

\* C31: once the hook is torn down no scheduled timer callback is left, and no
\* later step changes the phase, the otter flag or the haptic counts; at any
\* time at most one reveal timer and at most one otter timer are scheduled,
\* each the one its ref holds; a newly found word leaves exactly one otter
\* timer scheduled, also when one was already pending.
C31_TeardownClearsTimers ==
  /\ [](~mounted => NoLiveTimers)
  /\ [](/\ liveTimers.reveal = (IF revealTimer = "pending" THEN 1 ELSE 0)
        /\ liveTimers.otter = (IF otterTimer = "pending" THEN 1 ELSE 0))
  /\ [][~mounted => /\ gamePhase' = gamePhase
                    /\ isOtterExcited' = isOtterExcited
                    /\ haptics' = haptics]_vars
  /\ [][AppendsOne => liveTimers'.otter = 1]_vars

\* the hook was torn down while both timers were pending
C31_Witness ==
  /\ ~mounted
  /\ otterTimer = "cleared"
  /\ revealTimer = "cleared"
  /\ NoLiveTimers

(***************************************************************************)
(* Termination of generateGrid (checked under SpecGen).                    *)
(***************************************************************************)
\* the number of LCG draws that lead from state `from` to state `to`, or -1
\* when there are more than `cap`
RECURSIVE drawsRun(_, _, _, _)
drawsRun(from, to, k, limit) ==
  IF from = to THEN [found |-> TRUE, k |-> k, state |-> from]
  ELSE IF k >= limit THEN [found |-> FALSE, k |-> k, state |-> from]
  ELSE drawsRun(lcgNext(from), to, k + 1, limit)

\* counted in runs of 16 draws to keep the evaluation depth small
RECURSIVE drawsBetween(_, _, _, _)
drawsBetween(from, to, k, cap) ==
  LET limit == IF k + 16 < cap THEN k + 16 ELSE cap
      r == drawsRun(from, to, k, limit)
  IN IF r.found THEN r.k
     ELSE IF r.k >= cap THEN -1
     ELSE drawsBetween(r.state, to, r.k, cap)

\* what is left to do of a call: the words to place, the message, the filler
GenMeasure ==
  IF genPc = "placing" THEN Len(sortedWords) + 2
  ELSE IF genPc = "filling" THEN 1
  ELSE 0

PlacingStep == genPc = "placing" /\ sortedWords # <<>>

Scenes == { SCENE_ORDER[i] : i \in 1 .. Len(SCENE_ORDER) }

\* the step holds an onComplete() call, that is, one ADVANCE
AdvanceDispatched == \E scene \in Scenes : sceneCompletes'[scene] # sceneCompletes[scene]

\* C33: the sequencer starts at welcome; the current scene changes only in a
\* step that dispatches ADVANCE; every ADVANCE before the-ask moves to the
\* scene that follows the current one in welcome, quiz, word-search,
\* poetry-canvas, letter, the-ask, and ADVANCE at the-ask changes nothing.
C33_ForwardOnly ==
  /\ SCENE_ORDER = <<"welcome", "quiz", "word-search", "poetry-canvas", "letter", "the-ask">>
  /\ [][experienceState' # experienceState => AdvanceDispatched]_vars
  /\ [][AdvanceDispatched =>
          IF currentScene = "the-ask"
          THEN experienceState' = experienceState
          ELSE indexOf(experienceState'.currentScene) = indexOf(currentScene) + 1]_vars
  /\ [](experienceReducer(experienceState, AdvanceAction).currentScene =
          SCENE_ORDER[Min(indexOf(currentScene) + 1, 5) + 1])

\* ADVANCE was dispatched at the-ask
C33_Witness ==
  /\ currentScene = "the-ask"
  /\ sceneCompletes["the-ask"] > 0

\* C34: in the letter scene, whatever the order of interval ticks and taps,
\* visibleCount never decreases, changes by one at a time and stays within
\* 0..9; phase is all-visible exactly when visibleCount is 9; REVEAL_NEXT in
\* all-visible returns the state unchanged; the interval runs exactly while
\* the scene is mounted and revealing; and once the scene is shown all
\* paragraphs become visible.
C34_LetterReveal ==
  /\ [][letterState'.visibleCount >= letterState.visibleCount]_vars
  /\ [][letterState' # letterState =>
          letterState'.visibleCount = letterState.visibleCount + 1]_vars
  /\ [](letterState.visibleCount \in 0 .. LETTER_PARAGRAPHS_length)
  /\ [](letterState.phase = "all-visible"
          <=> letterState.visibleCount = LETTER_PARAGRAPHS_length)
  /\ [](letterState.phase = "all-visible"
          => letterReducer(letterState, RevealNextAction) = letterState)
  /\ [](letterInterval = "running"
          <=> (currentScene = "letter" /\ letterState.phase = "revealing"))
  /\ (currentScene = "letter") ~> (letterState.phase = "all-visible")

\* all paragraphs are visible and the interval is cleared
C34_Witness ==
  /\ currentScene = "letter"
  /\ letterState = [visibleCount |-> LETTER_PARAGRAPHS_length, phase |-> "all-visible"]
  /\ letterInterval = "none"

\* C35: in the quiz, questionIndex moves only by one and only from a state in
\* which the current question is answered correctly; a step that ends in
\* answer status wrong leaves questionIndex and completedCount unchanged;
\* completedCount counts the questions answered, at most 5; an answer tapped
\* while a correct answer awaits its advance changes nothing; onComplete is
\* called at most once, from the state in which all 5 questions are answered
\* correctly.
C35_QuizProgress ==
  /\ [][quizState'.questionIndex # quizState.questionIndex =>
          /\ quizState'.questionIndex = quizState.questionIndex + 1
          /\ quizState.answerStatus = "correct"
          /\ quizState.completedCount = quizState.questionIndex + 1
          /\ quizState'.completedCount = quizState.completedCount]_vars
  /\ [][quizState'.answerStatus = "wrong" =>
          /\ quizState'.questionIndex = quizState.questionIndex
          /\ quizState'.completedCount = quizState.completedCount]_vars
  /\ [](/\ quizState.completedCount <= QUIZ_QUESTIONS_length
        /\ quizState.questionIndex < QUIZ_QUESTIONS_length
        /\ quizState.completedCount =
             (IF quizState.answerStatus = "correct"
              THEN quizState.questionIndex + 1 ELSE quizState.questionIndex))
  /\ [][(quizState.answerStatus = "correct"
           /\ \E isCorrect \in BOOLEAN : handleAnswer(isCorrect)) => UNCHANGED vars]_vars
  /\ [](sceneCompletes["quiz"] <= 1)
  /\ [][sceneCompletes'["quiz"] # sceneCompletes["quiz"] =>
          /\ quizState.completedCount = QUIZ_QUESTIONS_length
          /\ quizState.answerStatus = "correct"
          /\ currentScene = "quiz"]_vars

\* the quiz was completed after a wrong answer had been retried
C35_Witness ==
  /\ sceneCompletes["quiz"] = 1
  /\ quizState.completedCount = QUIZ_QUESTIONS_length
  /\ quizState.shuffleSeed > QUIZ_QUESTIONS_length - 1

\* the place of a celebration phase in idle, celebrating, cta-visible
PhaseRank(phase) ==
  CASE phase = "idle" -> 0
    [] phase = "celebrating" -> 1
    [] phase = "cta-visible" -> 2

\* noStage stays within 0..6 and never decreases
AskNoStageForward ==
  /\ [](askState.noStage \in 0 .. 6)
  /\ [][askState'.noStage >= askState.noStage]_vars

\* C36: under any sequence of PRESS_NO, PRESS_YES and SHOW_CTA, noStage
\* never decreases and stays within 0..6, and celebrationPhase moves only
\* from idle to celebrating and from celebrating to cta-visible, never back
\* to an earlier phase.
C36_AskForwardOnly ==
  /\ AskNoStageForward
  /\ [][askState'.celebrationPhase # askState.celebrationPhase =>
          PhaseRank(askState'.celebrationPhase)
            = PhaseRank(askState.celebrationPhase) + 1]_vars

\* the call to action is shown after No was pressed on the way
C36_Witness ==
  /\ askState.celebrationPhase = "cta-visible"
  /\ askState.noStage = 6
  /\ askState.shakeCount > 0

(***************************************************************************)
(* Further properties of the orchestrator hook (checked under Spec).       *)
(***************************************************************************)
\* the condition on the drag phase under which handlePointerUp compares the
\* selection with the placements
ValidatesSelection ==
  /\ dragState.phase.type = "selecting"
  /\ dragState.phase.direction # Null
  /\ Len(dragState.phase.cells) >= 2

\* C37: in the composed hook the drag phase is never released (no handler
\* dispatches POINTER_UP); the selection handlePointerUp accepts is the first
\* match among the unfound placements exactly when the drag phase is
\* selecting with a direction and at least 2 cells, and none otherwise; and
\* that condition holds exactly when POINTER_UP would give a released phase,
\* which then has the same path and direction.
C37_ReleaseWithoutPointerUp ==
  /\ Rendered => dragState.phase.type # "released"
  /\ Rendered =>
       acceptedPlacement(gamePhase, dragState.phase)
         = (IF ValidatesSelection
            THEN firstMatch(dragState.phase.cells, unfound(gamePhase), 1)
            ELSE NullObj)
  /\ ValidatesSelection <=> pointerUp(dragState).phase.type = "released"
  /\ ValidatesSelection =>
       /\ pointerUp(dragState).phase.cells = dragState.phase.cells
       /\ pointerUp(dragState).phase.direction = dragState.phase.direction
  /\ ~ValidatesSelection => pointerUp(dragState) = IDLE_STATE

\* a second selection that would be validated, after a first one was accepted
C37_Witness ==
  /\ Len(gamePhase.foundWords) = 1
  /\ gamePhase.type = "playing"
  /\ ValidatesSelection

\* the drag phase of a selection whose path is `cells`
SelectionOf(cells, direction) ==
  [type |-> "selecting", cells |-> cells, direction |-> direction]

\* C39: in every state of a puzzle session the found-word list holds no word
\* twice, each entry has the word and the cells of one placement of the grid,
\* and the list has at most 7 entries; the release of a placement's path,
\* forward or reversed, is accepted only for a word not yet in the list, so
\* a release in the pause after the 7th find adds nothing.
C39_FoundListWellFormed ==
  Rendered =>
    LET found == gamePhase.foundWords
    IN /\ Len(found) <= TOTAL_WORDS
       /\ \A i, j \in 1 .. Len(found) : i # j => found[i].word # found[j].word
       /\ \A k \in 1 .. Len(found) :
            \E p \in Placements : p.word = found[k].word /\ p.cells = found[k].cells
       /\ \A p \in Placements : \A path \in {p.cells, Reverse(p.cells)} :
            LET accepted == acceptedPlacement(gamePhase, SelectionOf(path, p.direction))
                after == gameAfterPointerUp(gamePhase, SelectionOf(path, p.direction))
            IN /\ accepted # NullObj => accepted.word \notin foundSet(gamePhase)
               /\ AllFound => after = gamePhase

\* the last word found is traced again during the pause before the reveal
C39_Witness ==
  /\ gamePhase.type = "playing"
  /\ AllFound
  /\ revealTimer = "pending"
  /\ dragState.phase.type = "selecting"
  /\ Len(dragState.phase.cells) >= 2
  /\ \E p \in LastFound : dragState.phase.cells \in {p.cells, Reverse(p.cells)}

(***************************************************************************)
(* The random stream of the generator (checked under SpecGen).             *)
(***************************************************************************)
\* (1664525 * u + 1013904223) mod 2^32 for the unsigned 32-bit value u of
\* `state`, computed on the four bytes of u and returned as its two 16-bit
\* halves: 1664525 * byte is below 2^29, and the partial products shifted by
\* 0, 8, 16 and 24 bits are cut to 32 bits before they are added
RecurrenceHalves(state) ==
  LET lo == Lo16(state)
      hi == Hi16(state)
      t0 == 1664525 * (lo % 256)
      t1 == (1664525 * (lo \div 256)) % 16777216
      t2 == (1664525 * (hi % 256)) % 65536
      t3 == (1664525 * (hi \div 256)) % 256
      loSum == (t0 % 65536) + (t1 % 256) * 256 + (1013904223 % 65536)
      hiSum == (t0 \div 65536) + (t1 \div 256) + t2 + t3 * 256
                 + (1013904223 \div 65536) + (loSum \div 65536)
  IN [hi |-> hiSum % 65536, lo |-> loSum % 65536]

\* the stream state follows the recurrence from `state`
FollowsRecurrence(state) ==
  /\ Hi16(lcgNext(state)) = RecurrenceHalves(state).hi
  /\ Lo16(lcgNext(state)) = RecurrenceHalves(state).lo

\* the states the stream takes after `from`, up to `to` or `limit` draws
RECURSIVE streamRun(_, _, _, _)
streamRun(from, to, k, limit) ==
  IF from = to \/ k >= limit THEN [states |-> {}, last |-> from, k |-> k]
  ELSE LET r == streamRun(lcgNext(from), to, k + 1, limit)
       IN [states |-> {lcgNext(from)} \cup r.states, last |-> r.last, k |-> r.k]

\* collected in runs of 16 draws to keep the evaluation depth small
RECURSIVE streamBetween(_, _, _, _)
streamBetween(from, to, k, cap) ==
  LET limit == IF k + 16 < cap THEN k + 16 ELSE cap
      r == streamRun(from, to, k, limit)
  IN IF r.last = to \/ r.k >= cap THEN r.states
     ELSE r.states \cup streamBetween(r.last, to, r.k, cap)

\* the states drawn in the step, each of which gave one output
DrawnInStep == streamBetween(rng, rng', 0, 2 * MAX_PLACEMENT_ATTEMPTS)

\* floor(r * n) is one of 0 .. n - 1
IndexInRange(state, n) ==
  randomIndex(state, n) >= 0 /\ randomIndex(state, n) <= n - 1

\* the numbers of start rows and start columns placeWord samples from
maxRowOf(entry) ==
  config.gridSize - DIRECTION_VECTORS[entry.direction][1] * (Len(entry.word) - 1)

maxColOf(entry) ==
  config.gridSize - DIRECTION_VECTORS[entry.direction][2] * (Len(entry.word) - 1)

\* the stream starts from the seed 12345 in every call, every state of it
\* follows the recurrence from the state before, and every output is in [0, 1)
LcgStream ==
  /\ [][(genPc = "idle" /\ genPc' # "idle") => rng' = 12345]_vars
  /\ [][genPc # "idle" =>
          /\ FollowsRecurrence(rng)
          /\ rng' = rng \/ rng' \in DrawnInStep
          /\ \A state \in DrawnInStep :
               FollowsRecurrence(state) /\ randomIndex(state, 1) = 0]_vars

\* the shuffle and filler-pool indices are in range
ShuffleAndFillerIndices ==
  [][(genPc # "idle" /\ ~PlacingStep) =>
       \A state \in DrawnInStep :
         /\ IndexInRange(state, Len(FILLER_POOL))
         /\ \A n \in 2 .. config.gridSize * config.gridSize : IndexInRange(state, n)]_vars

\* the start rows and columns of a word that fits the grid are in range
StartIndicesOfFittingWords ==
  [][(PlacingStep /\ maxRowOf(Head(sortedWords)) >= 1
                  /\ maxColOf(Head(sortedWords)) >= 1) =>
       \A state \in DrawnInStep :
         /\ IndexInRange(state, maxRowOf(Head(sortedWords)))
         /\ IndexInRange(state, maxColOf(Head(sortedWords)))]_vars

\* C40: the random stream of a call starts from the seed 12345 and follows
\* state' = (1664525 * state + 1013904223) mod 2^32; every output lies in
\* [0, 1); and every index floor(r * n) derived from an output (start row,
\* start column, shuffle index, filler-pool index) lies in 0 .. n - 1.
C40_LcgStreamAndIndices ==
  /\ LcgStream
  /\ ShuffleAndFillerIndices
  /\ [][PlacingStep =>
          \A state \in DrawnInStep :
            /\ IndexInRange(state, maxRowOf(Head(sortedWords)))
            /\ IndexInRange(state, maxColOf(Head(sortedWords)))]_vars

\* a word longer than the grid was tried: there is no start column to draw
C40_Witness ==
  /\ StoppedAtWord
  /\ Head(sortedWords).direction = "horizontal"
  /\ maxColOf(Head(sortedWords)) <= 0

====
